---- MODULE Spec2Model ----
(***************************************************************************)
(* Order & inventory consistency of the FarmConnect marketplace backend.   *)
(*                                                                         *)
(* The model follows the Express route handlers of routes/orders.js,       *)
(* routes/products.js and routes/admin.js and the Mongoose schemas of the  *)
(* Product and Order models.  Every `await` on the data store is a point   *)
(* where another request may run, so a handler is split into one action    *)
(* per store access; the code between two store accesses runs atomically   *)
(* (single-threaded event loop).                                           *)
(*                                                                         *)
(* Money is counted in whole minor units, so price * quantity is exact.    *)
(* rating.average is counted in tenths (50 stands for 5.0).                *)
(***************************************************************************)
EXTENDS Integers, Sequences, FiniteSets, TLC

(***************************************************************************)
(* Bounds of the model.                                                    *)
(***************************************************************************)
MaxQty == 2         \* largest stock a product starts with or is edited to
MaxReqQty == 2      \* largest quantity of one requested line
MaxItems == 2       \* largest number of lines in one createOrder request
MaxPrice == 2       \* largest product price
MaxEdits == 1       \* catalogue edits (farmer / admin) per behaviour
MaxFaults == 1      \* storage failures injected per behaviour
MaxNumber == 2      \* distinct values the order number generator can yield
MaxReviews == 3     \* review documents saved per behaviour
MaxHist == 6        \* statuses recorded per order in its history
MaxCartQty == 3     \* quantity of a cart entry

(***************************************************************************)
(* Identities.                                                             *)
(***************************************************************************)
Users == {"b1", "f1", "f2"}           \* b1 only buys; f1 owns p1, f2 owns p2
ProductIds == {"p1", "p2"}          \* products present in the catalogue
MissingId == "p0"                   \* a well-formed id of no product
RequestIds == ProductIds \cup {MissingId}
CreateSlots == {"c1", "c2"}         \* concurrent POST /api/orders requests
StatusSlots == {"u1", "u2"}         \* concurrent PUT /api/orders/:id/status
PaySlots == {"y1"}                  \* POST /api/orders/:id/payment requests
Statuses ==
  {"pending", "confirmed", "processing", "shipped", "delivered", "cancelled"}
PaymentStatuses == {"pending", "paid", "failed", "refunded"}
ReviewSlots == {"v1", "v2"}         \* concurrent saves of review documents
MinRating == 1                      \* reviewSchema.rating min
MaxRating == 5                      \* reviewSchema.rating max
Ratings == MinRating..MaxRating

None == "none"

\* values of `ORD-${timestamp.slice(-6)}-${random}`: the generator draws on
\* the clock and on Math.random(), so any value may come out at any save
OrderNumbers == 1..MaxNumber

VARIABLES
  products,   \* Catalog Store: ProductIds -> product document
  orders,     \* Order collection: sequence of order documents, id = index
  co,         \* CreateSlots -> local state of a POST /api/orders request
  us,         \* StatusSlots -> local state of a PUT /api/orders/:id/status
  pay,        \* PaySlots -> local state of a POST /api/orders/:id/payment
  last,       \* history: the response sent by the status or payment step
              \*          just taken (NoResponse when the step sent none)
  edits,      \* number of catalogue edits performed
  faults,     \* number of storage failures injected
  snap,       \* history: catalogue and order count when a request began
  alone,      \* history: no other operation ran since the request began
  reviews,    \* Review collection: sequence of review documents
  rv,         \* ReviewSlots -> local state of a review save and its hook
  hist,       \* history: per order, the statuses it has held, oldest first,
              \*          while its status updates ran one at a time
  currentUser, \* browser: the user logged in, None when there is none
  cart,        \* browser: sequence of cart entries
  localStorage \* browser: the item 'cart', <<>> when absent, else <<text>>

vars ==
  <<products, orders, co, us, pay, last, edits, faults, snap, alone, reviews, rv,
    hist, currentUser, cart, localStorage>>

\* the state of the browser client
browser == <<currentUser, cart, localStorage>>

(***************************************************************************)
(* Pure helpers.                                                           *)
(***************************************************************************)
RECURSIVE SumLines(_)
\* orderSchema.methods.calculateTotal: reduce over price * quantity.
SumLines(items) ==
  IF items = <<>> THEN 0
  ELSE Head(items).price * Head(items).quantity + SumLines(Tail(items))

RECURSIVE QtyOf(_, _)
\* total quantity of product p over a sequence of lines
QtyOf(items, p) ==
  IF items = <<>> THEN 0
  ELSE (IF Head(items).product = p THEN Head(items).quantity ELSE 0)
       + QtyOf(Tail(items), p)

\* express-validator chain of POST /api/orders: items is a non-empty array
\* and every items.*.quantity is an integer >= 1.
BodyValid(items) ==
  /\ Len(items) >= 1
  /\ \A i \in 1..Len(items) : items[i].quantity >= 1

\* mutant: the availability check does not look at the approval
UnavailableUnlessListed(cat, id) ==
  \/ id \notin DOMAIN cat
  \/ ~cat[id].isActive
  \/ ~cat[id].isAvailable

\* !product || !product.isActive || !product.isApproved || !product.isAvailable
Unavailable(cat, id) ==
  \/ id \notin DOMAIN cat
  \/ ~cat[id].isActive
  \/ ~cat[id].isApproved
  \/ ~cat[id].isAvailable

\* mutant: the stock check refuses a request for exactly the stock at hand
InsufficientOrEqual(product, item) == product.quantity <= item.quantity

\* product.quantity < item.quantity
Insufficient(product, item) == product.quantity < item.quantity

\* mutant: the line total forgets the quantity
ItemTotalPriceOnly(product, item) == product.price

\* const itemTotal = product.price * item.quantity
ItemTotal(product, item) == product.price * item.quantity

\* the line pushed onto orderItems
OrderLine(id, product, item) ==
  [product |-> id, quantity |-> item.quantity,
   price |-> product.price, farmer |-> product.farmer]

\* new Order({buyer, items, totalAmount, ...}) with the schema defaults;
\* orderNumber is not among the fields given and has no default
NewOrder(buyer, items, total) ==
  [orderNumber |-> 0, buyer |-> buyer, items |-> items, totalAmount |-> total,
   status |-> "pending", paymentStatus |-> "pending",
   farmerNotes |-> None, deliveryNotes |-> None,
   paymentReference |-> None, isActive |-> TRUE]

\* mutant: every save generates the order number anew
PreSaveRegenerating(order, n) == [order EXCEPT !.orderNumber = n]

\* orderSchema.pre('save'): if (!this.orderNumber) this.orderNumber = ...;
\* n is the value the generator yields at this save
PreSave(order, n) ==
  IF order.orderNumber = 0 THEN [order EXCEPT !.orderNumber = n] ELSE order

\* unique index on orderNumber: the store refuses a document whose number
\* is held by another order (E11000)
DuplicateNumber(all, self, order) ==
  \E o \in 1..Len(all) : o # self /\ all[o].orderNumber = order.orderNumber

\* mutant: the stock loop takes one unit per line whatever was ordered
IncQuantityByOne(cat, id, q) ==
  IF id \in DOMAIN cat
    THEN [cat EXCEPT ![id].quantity = cat[id].quantity - 1]
    ELSE cat

\* Product.findByIdAndUpdate(id, {$inc: {quantity: -q}}): atomic, unconditional
IncQuantity(cat, id, q) ==
  IF id \in DOMAIN cat
    THEN [cat EXCEPT ![id].quantity = cat[id].quantity - q]
    ELSE cat

(***************************************************************************)
(* Inputs.                                                                 *)
(***************************************************************************)
\* an optional request field: <<>> when absent, <<v>> when present
Opt(S) == {<<>>} \cup {<<v>> : v \in S}

Lines == [productId : RequestIds, quantity : 0..MaxReqQty]
ItemLists == UNION {[1..n -> Lines] : n \in 0..MaxItems}

IdleReq ==
  [pc |-> "idle", buyer |-> None, items |-> <<>>, idx |-> 0,
   orderItems |-> <<>>, totalAmount |-> 0, orderId |-> 0, result |-> None]

IdleStatus ==
  [pc |-> "idle", actor |-> None, oid |-> 0, from |-> None, to |-> None,
   notes |-> <<>>, isFarmer |-> FALSE]

IdlePay ==
  [pc |-> "idle", actor |-> None, oid |-> 0, paymentStatus |-> None,
   reference |-> <<>>]

NoResponse ==
  [op |-> None, actor |-> None, oid |-> 0, from |-> None, to |-> None,
   notes |-> <<>>, result |-> None]

NoSnap == [products |-> <<>>, norders |-> 0]

\* productSchema.rating defaults, also written when no review is left
NoRating == [average |-> 0, count |-> 0]

\* the hook holds no product document yet
NoProduct ==
  [quantity |-> 0, price |-> 0, rating |-> NoRating, farmer |-> None,
   isActive |-> FALSE, isAvailable |-> FALSE, isApproved |-> FALSE]

\* local state of a review operation and its hook; op, before, fresh, trip
\* and alone are history: the operation, the rating of the product when the
\* review was submitted, whether that rating matched the reviews then,
\* whether this removal undoes the submission just made through the slot,
\* and whether no other slot took a step since
IdleReview ==
  [pc |-> "idle", op |-> None, product |-> None, buyer |-> None,
   total |-> 0, count |-> 0, result |-> None,
   loaded |-> NoProduct, before |-> NoRating, fresh |-> FALSE, trip |-> FALSE,
   alone |-> FALSE]

\* a catalogue of listed products; p2 may still await the admin's approval
\* (productSchema: isApproved defaults to false, the other flags to true)
Catalogue(p2Approved) ==
  [p \in ProductIds |->
     [quantity |-> MaxQty, price |-> 1,
      rating |-> NoRating,
      farmer |-> IF p = "p1" THEN "f1" ELSE "f2",
      isActive |-> TRUE, isAvailable |-> TRUE,
      isApproved |-> (p = "p1" \/ p2Approved)]]

InitRest ==
  /\ orders = <<>>
  /\ co = [r \in CreateSlots |-> IdleReq]
  /\ us = [u \in StatusSlots |-> IdleStatus]
  /\ pay = [y \in PaySlots |-> IdlePay]
  /\ last = NoResponse
  /\ edits = 0
  /\ faults = 0
  /\ snap = [r \in CreateSlots |-> NoSnap]
  /\ alone = [r \in CreateSlots |-> FALSE]
  /\ reviews = <<>>
  /\ rv = [v \in ReviewSlots |-> IdleReview]
  /\ hist = <<>>
  /\ currentUser = None
  /\ cart = <<>>
  /\ localStorage = <<>>

Init == products = Catalogue(TRUE) /\ InitRest

InitCatalog == products \in {Catalogue(a) : a \in BOOLEAN} /\ InitRest

\* history bookkeeping: a step of `self` disturbs every other request
Disturb(self) == [r \in CreateSlots |-> r = self /\ alone[r]]

(***************************************************************************)
(* POST /api/orders                                                        *)
(***************************************************************************)
\* request arrives; validationResult(req) is examined
CreateOrderStart(r, buyer, items) ==
  /\ co[r].pc = "idle"
  /\ IF BodyValid(items)
       THEN co' = [co EXCEPT ![r] = [IdleReq EXCEPT !.pc = "validate",
                                       !.buyer = buyer, !.items = items,
                                       !.idx = 1]]
       ELSE co' = [co EXCEPT ![r] = [IdleReq EXCEPT !.pc = "done",
                                       !.buyer = buyer, !.items = items,
                                       !.result = "ValidationFailed"]]
  /\ snap' = [snap EXCEPT ![r] =
                [products |-> products, norders |-> Len(orders)]]
  /\ alone' = [Disturb(r) EXCEPT ![r] = TRUE]
  /\ last' = NoResponse
  /\ UNCHANGED <<products, orders, us, pay, edits, faults, reviews, rv, hist,
                 browser>>

\* mutant: the validation loop reserves the stock of a line as it accepts it
CreateOrderValidateReserving(r) ==
  /\ co[r].pc = "validate"
  /\ LET item == co[r].items[co[r].idx]
         id == item.productId
         refused == Unavailable(products, id) \/ products[id].quantity < item.quantity
     IN /\ co' = IF refused
                   THEN [co EXCEPT ![r].pc = "done",
                           ![r].result = IF Unavailable(products, id)
                                           THEN "ProductUnavailable"
                                           ELSE "InsufficientStock"]
                   ELSE [co EXCEPT
                           ![r].orderItems =
                              Append(@, [product |-> id, quantity |-> item.quantity,
                                         price |-> products[id].price,
                                         farmer |-> products[id].farmer]),
                           ![r].totalAmount = @ + products[id].price * item.quantity,
                           ![r].idx = @ + 1,
                           ![r].pc = IF co[r].idx = Len(co[r].items)
                                       THEN "save" ELSE "validate"]
        /\ products' = IF refused THEN products
                       ELSE [products EXCEPT ![id].quantity = @ - item.quantity]
  /\ alone' = [x \in CreateSlots |-> x = r /\ alone[x]]
  /\ last' = [op |-> None, actor |-> None, oid |-> 0, from |-> None,
              to |-> None, notes |-> <<>>, result |-> None]
  /\ UNCHANGED <<orders, us, pay, edits, faults, snap, reviews, rv, hist,
                 browser>>

\* one iteration of `for (const item of items)`: findById, checks, push
CreateOrderValidate(r) ==
  /\ co[r].pc = "validate"
  /\ LET item == co[r].items[co[r].idx]
         id == item.productId
     IN IF Unavailable(products, id)
          THEN co' = [co EXCEPT ![r].pc = "done",
                                ![r].result = "ProductUnavailable"]
          ELSE IF Insufficient(products[id], item)
            THEN co' = [co EXCEPT ![r].pc = "done",
                                  ![r].result = "InsufficientStock"]
            ELSE co' = [co EXCEPT
                   ![r].orderItems = Append(@, OrderLine(id, products[id], item)),
                   ![r].totalAmount = @ + ItemTotal(products[id], item),
                   ![r].idx = @ + 1,
                   ![r].pc = IF co[r].idx = Len(co[r].items)
                               THEN "save" ELSE "validate"]
  /\ alone' = Disturb(r)
  /\ last' = NoResponse
  /\ UNCHANGED <<products, orders, us, pay, edits, faults, snap, reviews, rv,
                 hist, browser>>

\* await order.save(): the pre-save hook gives the order its number, the
\* store inserts it; a duplicate number rejects the save: catch -> 500
CreateOrderSave(r, n) ==
  /\ co[r].pc = "save"
  /\ LET order == PreSave(NewOrder(co[r].buyer, co[r].orderItems,
                                   co[r].totalAmount), n)
     IN IF DuplicateNumber(orders, 0, order)
          THEN /\ orders' = orders
               /\ hist' = hist
               /\ co' = [co EXCEPT ![r].pc = "done", ![r].result = "ServerError"]
          ELSE /\ orders' = Append(orders, order)
               /\ hist' = Append(hist, <<order.status>>)
               /\ co' = [co EXCEPT ![r].pc = "decrement", ![r].idx = 1,
                                   ![r].orderId = Len(orders) + 1]
  /\ alone' = Disturb(r)
  /\ last' = NoResponse
  /\ UNCHANGED <<products, us, pay, edits, faults, snap, reviews, rv, browser>>

\* one iteration of the stock loop: findByIdAndUpdate with $inc; after the
\* last one the order is re-read and returned with 201
CreateOrderDecrement(r) ==
  /\ co[r].pc = "decrement"
  /\ LET line == co[r].orderItems[co[r].idx]
     IN products' = IncQuantity(products, line.product, line.quantity)
  /\ co' = IF co[r].idx = Len(co[r].orderItems)
             THEN [co EXCEPT ![r].pc = "done", ![r].result = "Created"]
             ELSE [co EXCEPT ![r].idx = @ + 1]
  /\ alone' = Disturb(r)
  /\ last' = NoResponse
  /\ UNCHANGED <<orders, us, pay, edits, faults, snap, reviews, rv, hist,
                 browser>>

\* a store call of the handler rejects: catch -> 500
CreateOrderStorageError(r) ==
  /\ co[r].pc \in {"save", "decrement"}
  /\ faults < MaxFaults
  /\ faults' = faults + 1
  /\ co' = [co EXCEPT ![r].pc = "done", ![r].result = "ServerError"]
  /\ alone' = Disturb(r)
  /\ last' = NoResponse
  /\ UNCHANGED <<products, orders, us, pay, edits, snap, reviews, rv, hist,
                 browser>>

(***************************************************************************)
(* Catalogue edits                                                         *)
(***************************************************************************)
\* new Product({name, ..., price, quantity, farmer: req.user._id, ...}) with
\* the schema defaults for the fields the route does not set
NewProduct(farmer, price, quantity) ==
  [quantity |-> quantity, price |-> price, rating |-> NoRating,
   farmer |-> farmer, isActive |-> TRUE, isAvailable |-> TRUE,
   isApproved |-> FALSE]

\* POST /api/products by a farmer: the product document is inserted
CreateProduct(actor, id, price, quantity) ==
  /\ id \notin DOMAIN products
  /\ products' = [p \in DOMAIN products \cup {id} |->
                    IF p = id THEN NewProduct(actor, price, quantity)
                    ELSE products[p]]
  /\ alone' = [r \in CreateSlots |-> FALSE]
  /\ last' = NoResponse
  /\ UNCHANGED <<orders, co, us, pay, edits, faults, snap, reviews, rv, hist,
                 browser>>

\* PUT /api/products/:id by the owner: $set of the supplied fields
UpdateProduct(actor, id, price, quantity, isAvailable) ==
  /\ edits < MaxEdits
  /\ id \in DOMAIN products
  /\ products[id].farmer = actor
  /\ products' = [products EXCEPT
       ![id].price = IF price = <<>> THEN @ ELSE price[1],
       ![id].quantity = IF quantity = <<>> THEN @ ELSE quantity[1],
       ![id].isAvailable = IF isAvailable = <<>> THEN @ ELSE isAvailable[1]]
  /\ edits' = edits + 1
  /\ alone' = [r \in CreateSlots |-> FALSE]
  /\ last' = NoResponse
  /\ UNCHANGED <<orders, co, us, pay, faults, snap, reviews, rv, hist, browser>>

\* DELETE /api/products/:id by the owner: soft delete
DeleteProduct(actor, id) ==
  /\ edits < MaxEdits
  /\ id \in DOMAIN products
  /\ products[id].farmer = actor
  /\ products' = [products EXCEPT ![id].isActive = FALSE]
  /\ edits' = edits + 1
  /\ alone' = [r \in CreateSlots |-> FALSE]
  /\ last' = NoResponse
  /\ UNCHANGED <<orders, co, us, pay, faults, snap, reviews, rv, hist, browser>>

\* mutant: the approval of a product puts it back in the catalogue
ApproveProductReactivating(id, action) ==
  /\ edits < MaxEdits
  /\ id \in DOMAIN products
  /\ products' = IF action = "approve"
                   THEN [products EXCEPT ![id].isApproved = TRUE,
                                         ![id].isActive = TRUE]
                   ELSE [products EXCEPT ![id].isActive = FALSE]
  /\ edits' = edits + 1
  /\ alone' = [r \in CreateSlots |-> FALSE]
  /\ last' = NoResponse
  /\ UNCHANGED <<orders, co, us, pay, faults, snap, reviews, rv, hist, browser>>

\* PUT /api/admin/products/:id/approve
ApproveProduct(id, action) ==
  /\ edits < MaxEdits
  /\ id \in DOMAIN products
  /\ products' = IF action = "approve"
                   THEN [products EXCEPT ![id].isApproved = TRUE]
                   ELSE [products EXCEPT ![id].isActive = FALSE]
  /\ edits' = edits + 1
  /\ alone' = [r \in CreateSlots |-> FALSE]
  /\ last' = NoResponse
  /\ UNCHANGED <<orders, co, us, pay, faults, snap, reviews, rv, hist, browser>>

(***************************************************************************)
(* PUT /api/orders/:id/status                                              *)
(***************************************************************************)
\* no other updateStatus request is between its load and its save
Serial(u) == \A w \in StatusSlots \ {u} : us[w].pc = "idle"

\* history bookkeeping: the statuses an order has held, with the one it is
\* given now, for as long as its updates run one at a time; the record is
\* dropped (<<>>) at the first update that overlaps another request, and it
\* stops at MaxHist statuses
Held(h, status, serial) ==
  IF h = <<>> \/ ~serial THEN <<>>
  ELSE IF Len(h) < MaxHist THEN Append(h, status) ELSE h

\* mutant: a shipped order may still be cancelled
validTransitionsLax ==
  [pending |-> {"confirmed", "cancelled"},
   confirmed |-> {"processing", "cancelled"},
   processing |-> {"shipped", "cancelled"},
   shipped |-> {"delivered", "cancelled"},
   delivered |-> {},
   cancelled |-> {}]

\* const validTransitions = {...}
validTransitions ==
  [pending |-> {"confirmed", "cancelled"},
   confirmed |-> {"processing", "cancelled"},
   processing |-> {"shipped", "cancelled"},
   shipped |-> {"delivered"},
   delivered |-> {},
   cancelled |-> {}]

\* order.buyer.toString() === req.user._id.toString()
IsBuyer(order, actor) == order.buyer = actor

\* mutant: anyone counts as a farmer of an order that has lines
IsFarmerOfAnyOrder(order, actor) == Len(order.items) >= 1

\* order.items.some(item => item.farmer._id.toString() === req.user._id...)
IsFarmer(order, actor) ==
  \E i \in 1..Len(order.items) : order.items[i].farmer = actor

\* mutant: a cancelled order may be reopened
TransitionAllowedReopening(from, to) ==
  to \in validTransitions[from] \/ (from = "cancelled" /\ to = "pending")

\* !validTransitions[order.status].includes(status)
TransitionAllowed(from, to) == to \in validTransitions[from]

\* if (notes): an absent field and the empty string are both falsy
Given(notes) == notes # <<>> /\ notes[1] # ""

\* mutant: cancelling an order removes its lines and zeroes its total
StatusWriteDroppingLines(order, to, notes, isFarmer) ==
  [order EXCEPT
     !.status = to,
     !.items = IF to = "cancelled" THEN <<>> ELSE @,
     !.totalAmount = IF to = "cancelled" THEN 0 ELSE @,
     !.farmerNotes = IF Given(notes) /\ isFarmer THEN notes[1] ELSE @,
     !.deliveryNotes = IF Given(notes) /\ ~isFarmer THEN notes[1] ELSE @]

\* mutant: the notes of an actor who is the buyer go to deliveryNotes
StatusWriteBuyerFirst(order, to, notes, isFarmer) ==
  [order EXCEPT
     !.status = to,
     !.farmerNotes = IF Given(notes) /\ isFarmer /\ order.buyer \notin
                         {order.items[i].farmer : i \in 1..Len(order.items)}
                       THEN notes[1] ELSE @,
     !.deliveryNotes = IF Given(notes) /\ (~isFarmer \/ order.buyer \in
                           {order.items[i].farmer : i \in 1..Len(order.items)})
                         THEN notes[1] ELSE @]

\* order.status = status; if (notes) farmerNotes / deliveryNotes; order.save()
\* writes the modified paths of the loaded document only
StatusWrite(order, to, notes, isFarmer) ==
  [order EXCEPT
     !.status = to,
     !.farmerNotes = IF Given(notes) /\ isFarmer THEN notes[1] ELSE @,
     !.deliveryNotes = IF Given(notes) /\ ~isFarmer THEN notes[1] ELSE @]

StatusResponse(actor, oid, from, to, notes, result) ==
  [op |-> "status", actor |-> actor, oid |-> oid, from |-> from, to |-> to,
   notes |-> notes, result |-> result]

\* mutant: the notes are stored before the transition is validated
UpdateStatusLoadNotesFirst(u, actor, oid, to, notes) ==
  /\ us[u].pc = "idle"
  /\ IF oid \notin 1..Len(orders) \/ ~orders[oid].isActive
       THEN /\ last' = [op |-> "status", actor |-> actor, oid |-> oid,
                        from |-> None, to |-> to, notes |-> notes,
                        result |-> "OrderNotFound"]
            /\ UNCHANGED <<us, orders>>
       ELSE IF orders[oid].buyer # actor
               /\ \A i \in 1..Len(orders[oid].items) : orders[oid].items[i].farmer # actor
         THEN /\ last' = [op |-> "status", actor |-> actor, oid |-> oid,
                          from |-> orders[oid].status, to |-> to,
                          notes |-> notes, result |-> "Forbidden"]
              /\ UNCHANGED <<us, orders>>
         ELSE IF to \notin validTransitions[orders[oid].status]
           THEN /\ last' = [op |-> "status", actor |-> actor, oid |-> oid,
                            from |-> orders[oid].status, to |-> to,
                            notes |-> notes, result |-> "InvalidTransition"]
                /\ us' = us
                /\ orders' = [orders EXCEPT ![oid].deliveryNotes =
                                IF notes # <<>> THEN notes[1] ELSE @]
           ELSE /\ us' = [us EXCEPT ![u] =
                          [pc |-> "loaded", actor |-> actor, oid |-> oid,
                           from |-> orders[oid].status, to |-> to,
                           notes |-> notes,
                           isFarmer |-> \E i \in 1..Len(orders[oid].items) :
                                          orders[oid].items[i].farmer = actor]]
                /\ last' = [op |-> None, actor |-> None, oid |-> 0,
                            from |-> None, to |-> None, notes |-> <<>>,
                            result |-> None]
                /\ orders' = orders
  /\ alone' = [r \in CreateSlots |-> FALSE]
  /\ UNCHANGED <<products, co, pay, edits, faults, snap, reviews, rv, hist,
                 browser>>

\* findById + the checks that follow it without another store access
UpdateStatusLoad(u, actor, oid, to, notes) ==
  /\ us[u].pc = "idle"
  /\ IF oid \notin 1..Len(orders) \/ ~orders[oid].isActive
       THEN /\ last' = StatusResponse(actor, oid, None, to, notes, "OrderNotFound")
            /\ us' = us
       ELSE IF ~IsBuyer(orders[oid], actor) /\ ~IsFarmer(orders[oid], actor)
         THEN /\ last' = StatusResponse(actor, oid, orders[oid].status, to,
                                        notes, "Forbidden")
              /\ us' = us
         ELSE IF ~TransitionAllowed(orders[oid].status, to)
           THEN /\ last' = StatusResponse(actor, oid, orders[oid].status, to,
                                          notes, "InvalidTransition")
                /\ us' = us
           ELSE /\ us' = [us EXCEPT ![u] =
                          [pc |-> "loaded", actor |-> actor, oid |-> oid,
                           from |-> orders[oid].status, to |-> to,
                           notes |-> notes,
                           isFarmer |-> IsFarmer(orders[oid], actor)]]
                /\ last' = NoResponse
  /\ alone' = [r \in CreateSlots |-> FALSE]
  /\ UNCHANGED <<products, orders, co, pay, edits, faults, snap, reviews, rv,
                 hist, browser>>

\* mutant: cancelling an order puts the quantities of its lines back in stock
UpdateStatusSaveRestocking(u) ==
  /\ us[u].pc = "loaded"
  /\ orders' = [orders EXCEPT ![us[u].oid] =
                  [@ EXCEPT !.status = us[u].to,
                            !.farmerNotes = IF us[u].notes # <<>> /\ us[u].notes[1] # ""
                                               /\ us[u].isFarmer
                                              THEN us[u].notes[1] ELSE @,
                            !.deliveryNotes = IF us[u].notes # <<>> /\ us[u].notes[1] # ""
                                                 /\ ~us[u].isFarmer
                                                THEN us[u].notes[1] ELSE @]]
  /\ products' = IF us[u].to = "cancelled"
                   THEN [p \in DOMAIN products |->
                           [products[p] EXCEPT
                              !.quantity = @ + QtyOf(orders[us[u].oid].items, p)]]
                   ELSE products
  /\ last' = [op |-> "status", actor |-> us[u].actor, oid |-> us[u].oid,
              from |-> us[u].from, to |-> us[u].to, notes |-> us[u].notes,
              result |-> "Updated"]
  /\ us' = [us EXCEPT ![u] = [pc |-> "idle", actor |-> None, oid |-> 0,
                              from |-> None, to |-> None, notes |-> <<>>,
                              isFarmer |-> FALSE]]
  /\ alone' = [r \in CreateSlots |-> FALSE]
  /\ hist' = [hist EXCEPT ![us[u].oid] = Held(@, us[u].to, Serial(u))]
  /\ UNCHANGED <<co, pay, edits, faults, snap, reviews, rv, browser>>

\* await order.save(); res.json(...); the pre-save hook runs at this save too
UpdateStatusSave(u) ==
  /\ us[u].pc = "loaded"
  /\ \E n \in OrderNumbers :
       orders' = [orders EXCEPT ![us[u].oid] =
                    PreSave(StatusWrite(@, us[u].to, us[u].notes, us[u].isFarmer), n)]
  /\ last' = StatusResponse(us[u].actor, us[u].oid, us[u].from, us[u].to,
                            us[u].notes, "Updated")
  /\ us' = [us EXCEPT ![u] = IdleStatus]
  /\ alone' = [r \in CreateSlots |-> FALSE]
  /\ hist' = [hist EXCEPT ![us[u].oid] = Held(@, us[u].to, Serial(u))]
  /\ UNCHANGED <<products, co, pay, edits, faults, snap, reviews, rv, browser>>

(***************************************************************************)
(* POST /api/orders/:id/payment                                            *)
(***************************************************************************)
PaymentResponse(actor, oid, from, to, result) ==
  [op |-> "payment", actor |-> actor, oid |-> oid, from |-> from, to |-> to,
   notes |-> <<>>, result |-> result]

\* mutant: the save writes back the status of an order read when it was placed
PaymentWriteStale(order, paymentStatus, reference) ==
  [order EXCEPT
     !.status = "pending",
     !.paymentStatus = paymentStatus,
     !.paymentReference = IF reference # <<>> THEN reference[1] ELSE @]

\* mutant: a refunded order keeps its payment status
PaymentWriteRefundFinal(order, paymentStatus, reference) ==
  [order EXCEPT
     !.paymentStatus = IF @ = "refunded" THEN @ ELSE paymentStatus,
     !.paymentReference = IF reference # <<>> THEN reference[1] ELSE @]

\* order.paymentStatus = ...; if (paymentReference) ...; order.save()
PaymentWrite(order, paymentStatus, reference) ==
  [order EXCEPT
     !.paymentStatus = paymentStatus,
     !.paymentReference = IF reference # <<>> THEN reference[1] ELSE @]

\* mutant: the order is looked up for any party to it, buyer or farmer
SetPaymentLoadAnyParty(y, actor, oid, paymentStatus, reference) ==
  /\ pay[y].pc = "idle"
  /\ IF \/ oid \notin 1..Len(orders)
        \/ ~orders[oid].isActive
        \/ /\ orders[oid].buyer # actor
           /\ \A i \in 1..Len(orders[oid].items) : orders[oid].items[i].farmer # actor
       THEN /\ last' = [op |-> "payment", actor |-> actor, oid |-> oid,
                        from |-> None, to |-> paymentStatus, notes |-> <<>>,
                        result |-> "OrderNotFound"]
            /\ pay' = pay
       ELSE /\ pay' = [pay EXCEPT ![y] =
                        [pc |-> "loaded", actor |-> actor, oid |-> oid,
                         paymentStatus |-> paymentStatus,
                         reference |-> reference]]
            /\ last' = [op |-> None, actor |-> None, oid |-> 0, from |-> None,
                        to |-> None, notes |-> <<>>, result |-> None]
  /\ alone' = [r \in CreateSlots |-> FALSE]
  /\ UNCHANGED <<products, orders, co, us, edits, faults, snap, reviews, rv,
                 hist, browser>>

\* Order.findOne({_id, buyer: req.user._id, isActive: true})
SetPaymentLoad(y, actor, oid, paymentStatus, reference) ==
  /\ pay[y].pc = "idle"
  /\ IF \/ oid \notin 1..Len(orders)
        \/ orders[oid].buyer # actor
        \/ ~orders[oid].isActive
       THEN /\ last' = PaymentResponse(actor, oid, None, paymentStatus,
                                       "OrderNotFound")
            /\ pay' = pay
       ELSE /\ pay' = [pay EXCEPT ![y] =
                        [pc |-> "loaded", actor |-> actor, oid |-> oid,
                         paymentStatus |-> paymentStatus,
                         reference |-> reference]]
            /\ last' = NoResponse
  /\ alone' = [r \in CreateSlots |-> FALSE]
  /\ UNCHANGED <<products, orders, co, us, edits, faults, snap, reviews, rv,
                 hist, browser>>

\* await order.save(); res.json(...); the pre-save hook runs at this save too
SetPaymentSave(y) ==
  /\ pay[y].pc = "loaded"
  /\ last' = PaymentResponse(pay[y].actor, pay[y].oid,
                             orders[pay[y].oid].paymentStatus,
                             pay[y].paymentStatus, "Updated")
  /\ \E n \in OrderNumbers :
       orders' = [orders EXCEPT ![pay[y].oid] =
                    PreSave(PaymentWrite(@, pay[y].paymentStatus, pay[y].reference), n)]
  /\ pay' = [pay EXCEPT ![y] = IdlePay]
  /\ alone' = [r \in CreateSlots |-> FALSE]
  /\ UNCHANGED <<products, co, us, edits, faults, snap, reviews, rv, hist,
                 browser>>

(***************************************************************************)
(* Review model: the save of a review document and its post('save') hook   *)
(***************************************************************************)
\* mutant: the quotient is taken to the next integer above it
RoundUpward(num, den) == (num \div den) + 1

\* Math.round(num / den) for num >= 0, den > 0: halves round up
RoundHalfUp(num, den) == (2 * num + den) \div (2 * den)

\* mutant: the average is cut to one decimal instead of rounded
AverageTruncated(total, n) == (10 * total) \div n

\* Math.round(averageRating * 10) / 10 with averageRating = totalRating / n,
\* in tenths
AverageTenths(total, n) == RoundHalfUp(10 * total, n)

RECURSIVE ActiveOf(_, _)
\* Review.find({product, isActive: true})
ActiveOf(all, p) ==
  IF all = <<>> THEN <<>>
  ELSE IF Head(all).product = p /\ Head(all).isActive
         THEN <<Head(all)>> \o ActiveOf(Tail(all), p)
         ELSE ActiveOf(Tail(all), p)

RECURSIVE TotalRating(_)
\* reviews.reduce((sum, review) => sum + review.rating, 0)
TotalRating(found) ==
  IF found = <<>> THEN 0 ELSE Head(found).rating + TotalRating(Tail(found))

\* a new review document with the schema defaults
NewReview(product, buyer, order, rating) ==
  [product |-> product, buyer |-> buyer, order |-> order, rating |-> rating,
   isActive |-> TRUE]

\* the aggregate of the reviews found, as post('findOneAndDelete') computes it
Aggregate(found) ==
  IF Len(found) > 0
    THEN [average |-> AverageTenths(TotalRating(found), Len(found)),
          count |-> Len(found)]
    ELSE NoRating

\* the rating stored on product p, NoRating for a product that does not exist
RatingOf(cat, p) == IF p \in DOMAIN cat THEN cat[p].rating ELSE NoRating

\* product.save() writes the paths the hook has modified: a path set to the
\* value the document was loaded with is not modified and stays as stored
SavedRating(stored, loaded, computed) ==
  [average |-> IF computed.average # loaded.average
                 THEN computed.average ELSE stored.average,
   count |-> IF computed.count # loaded.count
               THEN computed.count ELSE stored.count]

\* mutant: the save writes back every path of the document the hook loaded
SavedProductWhole(stored, loaded, computed) ==
  [loaded EXCEPT !.rating = computed]

\* product.save() in a hook: of the stored product only the rating paths the
\* hook has modified are written
SavedProduct(stored, loaded, computed) ==
  [stored EXCEPT !.rating = SavedRating(stored.rating, loaded.rating, computed)]

\* the answer of the operation whose hook has run
Outcome(op) == IF op = "submit" THEN "Committed" ELSE "Removed"

\* mutant: the index covers the active reviews only
DuplicateActiveReview(all, product, buyer) ==
  \E i \in 1..Len(all) :
    all[i].product = product /\ all[i].buyer = buyer /\ all[i].isActive

\* unique index on {product, buyer}
DuplicateReview(all, product, buyer) ==
  \E i \in 1..Len(all) : all[i].product = product /\ all[i].buyer = buyer

\* history bookkeeping: a step of slot v disturbs every other review slot
Touch(v, state) ==
  [w \in ReviewSlots |-> IF w = v THEN state ELSE [rv[w] EXCEPT !.alone = FALSE]]

\* review.save() of a new document: the store inserts it unless the unique
\* index refuses it; post('save') runs after a committed write only
ReviewSave(v, buyer, product, order, rating) ==
  /\ rv[v].pc \in {"idle", "done"}
  /\ Len(reviews) < MaxReviews
  /\ LET slot == [IdleReview EXCEPT
                    !.op = "submit", !.product = product, !.buyer = buyer,
                    !.before = RatingOf(products, product),
                    !.fresh = (RatingOf(products, product)
                                 = Aggregate(ActiveOf(reviews, product))),
                    !.alone = TRUE]
     IN IF DuplicateReview(reviews, product, buyer)
          THEN /\ reviews' = reviews
               /\ rv' = Touch(v, [slot EXCEPT !.pc = "done",
                                               !.result = "DuplicateReview"])
          ELSE /\ reviews' = Append(reviews,
                                    NewReview(product, buyer, order, rating))
               /\ rv' = Touch(v, [slot EXCEPT !.pc = "findProduct"])
  /\ alone' = [r \in CreateSlots |-> FALSE]
  /\ last' = NoResponse
  /\ UNCHANGED <<products, orders, co, us, pay, edits, faults, snap, hist,
                 browser>>

\* const product = await Product.findById(this.product); if (product) ...
HookFindProduct(v) ==
  /\ rv[v].pc = "findProduct"
  /\ rv' = Touch(v, IF rv[v].product \in DOMAIN products
                      THEN [rv[v] EXCEPT !.pc = "findReviews",
                             !.loaded = products[rv[v].product]]
                      ELSE [rv[v] EXCEPT !.pc = "done",
                                         !.result = Outcome(rv[v].op)])
  /\ alone' = [r \in CreateSlots |-> FALSE]
  /\ last' = NoResponse
  /\ UNCHANGED <<products, orders, co, us, pay, edits, faults, snap, reviews,
                 hist, browser>>

\* const reviews = await Review.find({product, isActive: true}); totalRating
HookFindReviews(v) ==
  /\ rv[v].pc = "findReviews"
  /\ LET found == ActiveOf(reviews, rv[v].product)
     IN rv' = Touch(v, [rv[v] EXCEPT !.pc = "saveProduct",
                          !.total = TotalRating(found), !.count = Len(found)])
  /\ alone' = [r \in CreateSlots |-> FALSE]
  /\ last' = NoResponse
  /\ UNCHANGED <<products, orders, co, us, pay, edits, faults, snap, reviews,
                 hist, browser>>

\* product.rating.average = ...; product.rating.count = ...; product.save()
\* writes the two modified paths; with no review found the average is
\* 0 / 0 = NaN, which fails min: 0 of rating.average (NaN >= 0 is false), so
\* the save is rejected and the product keeps the rating it had
HookSaveProduct(v) ==
  /\ rv[v].pc = "saveProduct"
  /\ products' =
       IF rv[v].count = 0 THEN products
       ELSE [products EXCEPT ![rv[v].product] =
               SavedProduct(@, rv[v].loaded,
                 [average |-> AverageTenths(rv[v].total, rv[v].count),
                  count |-> rv[v].count])]
  /\ rv' = Touch(v, [rv[v] EXCEPT
                       !.pc = "done",
                       !.result = IF rv[v].count = 0 THEN "AggregateFailed"
                                  ELSE Outcome(rv[v].op)])
  /\ alone' = [r \in CreateSlots |-> FALSE]
  /\ last' = NoResponse
  /\ UNCHANGED <<orders, co, us, pay, edits, faults, snap, reviews, hist,
                 browser>>

\* the removal through slot v of review i undoes the submission the slot
\* has just completed, nothing else having run in between
UndoesOwn(v, i) ==
  /\ rv[v].pc = "done"
  /\ rv[v].op = "submit"
  /\ rv[v].result = "Committed"
  /\ rv[v].alone
  /\ rv[v].product = reviews[i].product
  /\ rv[v].buyer = reviews[i].buyer

\* the slot state of a removal of review i through slot v
RemovalSlot(v, i, op, pc) ==
  [IdleReview EXCEPT
     !.pc = pc, !.op = op,
     !.product = reviews[i].product, !.buyer = reviews[i].buyer,
     !.before = IF UndoesOwn(v, i) THEN rv[v].before ELSE NoRating,
     !.fresh = UndoesOwn(v, i) /\ rv[v].fresh,
     !.trip = UndoesOwn(v, i),
     !.alone = TRUE]

\* removal by soft delete: review.isActive = false; review.save(); the
\* post('save') hook runs as after any save
ReviewDeactivate(v, i) ==
  /\ rv[v].pc \in {"idle", "done"}
  /\ i \in 1..Len(reviews)
  /\ reviews[i].isActive
  /\ reviews' = [reviews EXCEPT ![i].isActive = FALSE]
  /\ rv' = Touch(v, RemovalSlot(v, i, "deactivate", "findProduct"))
  /\ alone' = [r \in CreateSlots |-> FALSE]
  /\ last' = NoResponse
  /\ UNCHANGED <<products, orders, co, us, pay, edits, faults, snap, hist,
                 browser>>

\* the sequence without its i-th element
Without(all, i) == SubSeq(all, 1, i - 1) \o SubSeq(all, i + 1, Len(all))

\* removal by physical delete: Review.findOneAndDelete(...)
ReviewDelete(v, i) ==
  /\ rv[v].pc \in {"idle", "done"}
  /\ i \in 1..Len(reviews)
  /\ reviews' = Without(reviews, i)
  /\ rv' = Touch(v, RemovalSlot(v, i, "delete", "delFindProduct"))
  /\ alone' = [r \in CreateSlots |-> FALSE]
  /\ last' = NoResponse
  /\ UNCHANGED <<products, orders, co, us, pay, edits, faults, snap, hist,
                 browser>>

\* post('findOneAndDelete'): Product.findById(this.product); the hook has no
\* document parameter, and whether `this` carries the product of the deleted
\* review is not settled by the schema file: `bound` is the case that it does
DeleteHookFindProduct(v, bound) ==
  /\ rv[v].pc = "delFindProduct"
  /\ rv' = Touch(v, IF bound /\ rv[v].product \in DOMAIN products
                      THEN [rv[v] EXCEPT !.pc = "delFindReviews",
                             !.loaded = products[rv[v].product]]
                      ELSE [rv[v] EXCEPT !.pc = "done", !.result = "NoAggregate"])
  /\ alone' = [r \in CreateSlots |-> FALSE]
  /\ last' = NoResponse
  /\ UNCHANGED <<products, orders, co, us, pay, edits, faults, snap, reviews,
                 hist, browser>>

\* post('findOneAndDelete'): Review.find({product, isActive: true})
DeleteHookFindReviews(v) ==
  /\ rv[v].pc = "delFindReviews"
  /\ LET found == ActiveOf(reviews, rv[v].product)
     IN rv' = Touch(v, [rv[v] EXCEPT !.pc = "delSaveProduct",
                          !.total = TotalRating(found), !.count = Len(found)])
  /\ alone' = [r \in CreateSlots |-> FALSE]
  /\ last' = NoResponse
  /\ UNCHANGED <<products, orders, co, us, pay, edits, faults, snap, reviews,
                 hist, browser>>

\* post('findOneAndDelete'): if (reviews.length > 0) {...} else {0, 0};
\* product.save()
DeleteHookSaveProduct(v) ==
  /\ rv[v].pc = "delSaveProduct"
  /\ products' = [products EXCEPT ![rv[v].product] =
                    SavedProduct(@, rv[v].loaded,
                      IF rv[v].count > 0
                        THEN [average |-> AverageTenths(rv[v].total, rv[v].count),
                              count |-> rv[v].count]
                        ELSE NoRating)]
  /\ rv' = Touch(v, [rv[v] EXCEPT !.pc = "done", !.result = "Removed"])
  /\ alone' = [r \in CreateSlots |-> FALSE]
  /\ last' = NoResponse
  /\ UNCHANGED <<orders, co, us, pay, edits, faults, snap, reviews, hist,
                 browser>>

(***************************************************************************)
(* Browser client: the cart                                                *)
(***************************************************************************)
\* JSON.stringify(cart): the entries in order, each with its four members in
\* the order they were created in
Stringify(c) ==
  [i \in 1..Len(c) |->
     <<c[i].productId, c[i].productName, c[i].price, c[i].quantity>>]

\* JSON.parse(text) of a stringified cart
Parse(text) ==
  [i \in 1..Len(text) |->
     [productId |-> text[i][1], productName |-> text[i][2],
      price |-> text[i][3], quantity |-> text[i][4]]]

\* JSON.parse(localStorage.getItem('cart')) || []
LoadCart(storage) == IF storage = <<>> THEN <<>> ELSE Parse(storage[1])

\* cart.find(item => item.productId === productId): the index of the first
\* entry of the product, 0 when there is none
FindItem(c, productId) ==
  IF \E i \in 1..Len(c) : c[i].productId = productId
    THEN CHOOSE i \in 1..Len(c) :
           /\ c[i].productId = productId
           /\ \A j \in 1..(i - 1) : c[j].productId # productId
    ELSE 0

\* mutant: addToCart always pushes a new entry
AddedAsNew(c, productId, productName, price) ==
  Append(c, [productId |-> productId, productName |-> productName,
             price |-> price, quantity |-> 1])

\* addToCart: existingItem.quantity += 1, or cart.push({..., quantity: 1})
Added(c, productId, productName, price) ==
  IF FindItem(c, productId) # 0
    THEN [c EXCEPT ![FindItem(c, productId)].quantity = @ + 1]
    ELSE Append(c, [productId |-> productId, productName |-> productName,
                    price |-> price, quantity |-> 1])

RECURSIVE Filtered(_, _)
\* cart.filter(item => item.productId !== productId)
Filtered(c, productId) ==
  IF c = <<>> THEN <<>>
  ELSE IF Head(c).productId # productId
         THEN <<Head(c)>> \o Filtered(Tail(c), productId)
         ELSE Filtered(Tail(c), productId)

\* updateQuantity on an entry that exists: item.quantity += change; if
\* (item.quantity <= 0) removeFromCart(productId)
QuantityChanged(c, productId, change) ==
  LET i == FindItem(c, productId)
      d == [c EXCEPT ![i].quantity = @ + change]
  IN IF d[i].quantity <= 0 THEN Filtered(d, productId) ELSE d

\* the response of a cart function (what showAlert reports)
CartResponse(op, result) == [NoResponse EXCEPT !.op = op, !.result = result]

\* currentUser = data.user after a login
Login(user) ==
  /\ currentUser = None
  /\ currentUser' = user
  /\ last' = NoResponse
  /\ UNCHANGED <<products, orders, co, us, pay, edits, faults, snap, alone,
                 reviews, rv, hist, cart, localStorage>>

\* logout(): currentUser = null; the cart is kept
Logout ==
  /\ currentUser # None
  /\ currentUser' = None
  /\ last' = NoResponse
  /\ UNCHANGED <<products, orders, co, us, pay, edits, faults, snap, alone,
                 reviews, rv, hist, cart, localStorage>>

\* addToCart(productId, productName, price)
AddToCart(productId, productName, price) ==
  /\ \A i \in 1..Len(cart) : cart[i].quantity < MaxCartQty
  /\ IF currentUser = None
       THEN /\ last' = CartResponse("addToCart", "LoginRequired")
            /\ UNCHANGED <<cart, localStorage>>
       ELSE /\ cart' = Added(cart, productId, productName, price)
            /\ localStorage' = <<Stringify(cart')>>
            /\ last' = CartResponse("addToCart", "Added")
  /\ UNCHANGED <<products, orders, co, us, pay, edits, faults, snap, alone,
                 reviews, rv, hist, currentUser>>

\* updateQuantity(productId, change)
UpdateQuantity(productId, change) ==
  /\ \A i \in 1..Len(cart) : cart[i].quantity + change <= MaxCartQty
  /\ IF FindItem(cart, productId) = 0
       THEN UNCHANGED <<cart, localStorage>>
       ELSE /\ cart' = QuantityChanged(cart, productId, change)
            /\ localStorage' = <<Stringify(cart')>>
  /\ last' = CartResponse("updateQuantity", "Done")
  /\ UNCHANGED <<products, orders, co, us, pay, edits, faults, snap, alone,
                 reviews, rv, hist, currentUser>>

\* removeFromCart(productId)
RemoveFromCart(productId) ==
  /\ cart' = Filtered(cart, productId)
  /\ localStorage' = <<Stringify(cart')>>
  /\ last' = CartResponse("removeFromCart", "Removed")
  /\ UNCHANGED <<products, orders, co, us, pay, edits, faults, snap, alone,
                 reviews, rv, hist, currentUser>>

(***************************************************************************)
(* Specifications.                                                         *)
(*                                                                         *)
(* Spec          : two concurrent createOrder requests on the products of  *)
(*                 the catalogue, with storage failures.                   *)
(* SpecCatalog   : one createOrder request with any request body, run      *)
(*                 against a catalogue that farmers and the admin edit.    *)
(* SpecLifecycle : an order is created and its status is updated by         *)
(*                 concurrent requests.                                    *)
(* SpecFrame     : an order is created, then its status and payment status *)
(*                 are updated while a second order is placed or the       *)
(*                 catalogue is edited.                                    *)
(* SpecNotes     : an order is created by a buyer who may also be a farmer *)
(*                 of its lines; any user sends status updates with notes. *)
(* SpecPayment   : an order is created and walks through its statuses      *)
(*                 while any user sends payment status updates.            *)
(* SpecNumbers   : two orders are created with generated order numbers     *)
(*                 that may collide; the first is updated afterwards.      *)
(* SpecReviews   : reviews are saved one after the other and the hook      *)
(*                 recomputes the rating of the product.                   *)
(* SpecDeactivate: reviews of one product are submitted and deactivated    *)
(*                 one after the other.                                    *)
(* SpecRemoval   : reviews of one product are submitted, deactivated and   *)
(*                 deleted one after the other.                            *)
(* SpecReviewRace: reviews of one product are submitted by concurrent      *)
(*                 requests whose hooks interleave.                        *)
(* SpecPurchase  : an order is placed and reviews are saved with any       *)
(*                 buyer, product and order reference.                     *)
(* SpecStock     : two concurrent createOrder requests, with storage       *)
(*                 failures, and cancellations of the orders placed.       *)
(* SpecApproval  : a farmer lists a product; the catalogue is edited and   *)
(*                 an order is placed.                                     *)
(* SpecRetired   : an order is requested while the catalogue, which holds  *)
(*                 an inactive product, is edited.                         *)
(* SpecRatingFrame: an order is placed while reviews are submitted and     *)
(*                 removed.                                                *)
(* SpecCart      : a user logs in and out and works on the cart of the     *)
(*                 browser client.                                         *)
(***************************************************************************)
\* request bodies that name products of the catalogue, quantities >= 1
StockLists ==
  {l \in ItemLists : BodyValid(l) /\ \A i \in 1..Len(l) : l[i].productId \in ProductIds}

\* the steps of a request after its arrival; the number generated for its
\* order is one no order holds yet
CreateSteps(r) ==
  \/ CreateOrderValidate(r)
  \/ CreateOrderSave(r, Len(orders) + 1)
  \/ CreateOrderDecrement(r)

CatalogueEdit ==
  \/ \E id \in ProductIds, a \in Users,
        pr \in Opt(1..MaxPrice), q \in Opt(0..MaxQty), av \in Opt(BOOLEAN) :
       UpdateProduct(a, id, pr, q, av)
  \/ \E id \in ProductIds, a \in Users : DeleteProduct(a, id)
  \/ \E id \in ProductIds, act \in {"approve", "reject"} : ApproveProduct(id, act)

Next ==
  \/ \E r \in CreateSlots, items \in StockLists : CreateOrderStart(r, "b1", items)
  \/ \E r \in CreateSlots : CreateSteps(r)
  \/ \E r \in CreateSlots : CreateOrderStorageError(r)

Spec == Init /\ [][Next]_vars

NextCatalog ==
  \/ \E items \in ItemLists : CreateOrderStart("c1", "b1", items)
  \/ CreateSteps("c1")
  \/ CatalogueEdit

SpecCatalog == InitCatalog /\ [][NextCatalog]_vars

\* the catalogue before farmer f2 has listed p2
InitApproval ==
  /\ products = [p \in {"p1"} |-> Catalogue(TRUE)[p]]
  /\ InitRest

\* farmer f2 lists p2; the catalogue is edited and an order is placed
NextApproval ==
  \/ CreateProduct("f2", "p2", 1, MaxQty)
  \/ \E items \in StockLists : CreateOrderStart("c1", "b1", items)
  \/ CreateSteps("c1")
  \/ CatalogueEdit

SpecApproval == InitApproval /\ [][NextApproval]_vars

\* the catalogue after p2, not yet approved, was deleted by its farmer or
\* rejected by the admin
InitRetired ==
  /\ products = [Catalogue(FALSE) EXCEPT !["p2"].isActive = FALSE]
  /\ InitRest

\* one createOrder request with any body while the catalogue is edited
NextRetired ==
  \/ \E items \in ItemLists : CreateOrderStart("c1", "b1", items)
  \/ CreateSteps("c1")
  \/ CatalogueEdit

SpecRetired == InitRetired /\ [][NextRetired]_vars

\* request bodies of one unit per line, for the orders whose lifecycle is followed
UnitLists == {l \in StockLists : \A i \in 1..Len(l) : l[i].quantity = 1}

NextLifecycle ==
  \/ \E items \in UnitLists : CreateOrderStart("c1", "b1", items)
  \/ CreateSteps("c1")
  \/ \E u \in StatusSlots, a \in Users, oid \in 1..(Len(orders) + 1),
        to \in Statuses : UpdateStatusLoad(u, a, oid, to, <<>>)
  \/ \E u \in StatusSlots : UpdateStatusSave(u)

SpecLifecycle == Init /\ [][NextLifecycle]_vars

\* request bodies of a single line of one unit
SingleLists == {l \in UnitLists : Len(l) = 1}

\* c1 creates an order; everything else runs once that order is persisted.
\* A behaviour either places a second order (c2) or edits the catalogue.
Placed == Len(orders) >= 1

NextFrame ==
  \/ \E items \in SingleLists : CreateOrderStart("c1", "b1", items)
  \/ CreateSteps("c1")
  \/ Placed /\ edits = 0 /\ \E items \in SingleLists :
       CreateOrderStart("c2", "b1", items)
  \/ Placed /\ CreateSteps("c2")
  \/ Placed /\ \E to \in Statuses : UpdateStatusLoad("u1", "b1", 1, to, <<>>)
  \/ Placed /\ UpdateStatusSave("u1")
  \/ Placed /\ \E ps \in PaymentStatuses : SetPaymentLoad("y1", "b1", 1, ps, <<>>)
  \/ Placed /\ SetPaymentSave("y1")
  \/ Placed /\ co["c2"].pc = "idle" /\ CatalogueEdit

SpecFrame == Init /\ [][NextFrame]_vars

\* buyers of the orders whose notes are followed: b1, and f1 who may buy
\* the own product p1 (POST /api/orders asks for a token only)
NoteBuyers == {"b1", "f1"}

\* values of the optional body field `notes` (trimmed by the validator)
NoteTexts == {"", "n1"}

NextNotes ==
  \/ \E b \in NoteBuyers, items \in UnitLists : CreateOrderStart("c1", b, items)
  \/ CreateSteps("c1")
  \/ \E a \in Users, oid \in 1..(Len(orders) + 1), to \in Statuses,
        n \in Opt(NoteTexts) : UpdateStatusLoad("u1", a, oid, to, n)
  \/ UpdateStatusSave("u1")

SpecNotes == Init /\ [][NextNotes]_vars

\* values of the optional body field `paymentReference` (notEmpty)
PayRefs == {"r1"}

NextPayment ==
  \/ \E items \in SingleLists : CreateOrderStart("c1", "b1", items)
  \/ CreateSteps("c1")
  \/ \E to \in Statuses : UpdateStatusLoad("u1", "b1", 1, to, <<>>)
  \/ UpdateStatusSave("u1")
  \/ \E y \in PaySlots, a \in Users, oid \in 1..(Len(orders) + 1),
        ps \in PaymentStatuses, ref \in Opt(PayRefs) :
       SetPaymentLoad(y, a, oid, ps, ref)
  \/ \E y \in PaySlots : SetPaymentSave(y)

SpecPayment == Init /\ [][NextPayment]_vars

\* two orders are placed with whatever numbers the generator yields, and the
\* first order is saved again by status and payment updates of its buyer
NextNumbers ==
  \/ \E r \in CreateSlots, items \in SingleLists : CreateOrderStart(r, "b1", items)
  \/ \E r \in CreateSlots : CreateOrderValidate(r)
  \/ \E r \in CreateSlots, n \in OrderNumbers : CreateOrderSave(r, n)
  \/ \E r \in CreateSlots : CreateOrderDecrement(r)
  \/ \E r \in CreateSlots : CreateOrderStorageError(r)
  \/ \E to \in Statuses : UpdateStatusLoad("u1", "b1", 1, to, <<>>)
  \/ UpdateStatusSave("u1")
  \/ \E ps \in PaymentStatuses : SetPaymentLoad("y1", "b1", 1, ps, <<>>)
  \/ SetPaymentSave("y1")

SpecNumbers == Init /\ [][NextNumbers]_vars

\* products named by the reviews: a product of the catalogue and a missing one
ReviewProducts == {"p1", MissingId}

\* reviews are saved one at a time, each followed by its hook
NextReviews ==
  \/ \E b \in Users, p \in ReviewProducts, x \in Ratings :
       ReviewSave("v1", b, p, 1, x)
  \/ HookFindProduct("v1")
  \/ HookFindReviews("v1")
  \/ HookSaveProduct("v1")

SpecReviews == Init /\ [][NextReviews]_vars

\* reviews of product p1 are submitted and deactivated, one at a time
NextDeactivate ==
  \/ \E b \in Users, x \in Ratings : ReviewSave("v1", b, "p1", 1, x)
  \/ \E i \in 1..MaxReviews : ReviewDeactivate("v1", i)
  \/ HookFindProduct("v1")
  \/ HookFindReviews("v1")
  \/ HookSaveProduct("v1")

SpecDeactivate == Init /\ [][NextDeactivate]_vars

\* the steps of the hooks of slot v
HookSteps(v) ==
  \/ HookFindProduct(v)
  \/ HookFindReviews(v)
  \/ HookSaveProduct(v)
  \/ \E bound \in BOOLEAN : DeleteHookFindProduct(v, bound)
  \/ DeleteHookFindReviews(v)
  \/ DeleteHookSaveProduct(v)

\* reviews of product p1 are submitted and removed, one operation at a time
NextRemoval ==
  \/ \E b \in Users, x \in Ratings : ReviewSave("v1", b, "p1", 1, x)
  \/ \E i \in 1..MaxReviews : ReviewDeactivate("v1", i)
  \/ \E i \in 1..MaxReviews : ReviewDelete("v1", i)
  \/ HookSteps("v1")

SpecRemoval == Init /\ [][NextRemoval]_vars

\* the buyers and ratings of the concurrent submissions
RaceBuyers == {"b1", "f1"}
RaceRatings == {MinRating, MaxRating}

\* reviews of product p1 are submitted by concurrent requests
NextReviewRace ==
  \/ \E v \in ReviewSlots, b \in RaceBuyers, x \in RaceRatings :
       ReviewSave(v, b, "p1", 1, x)
  \/ \E v \in ReviewSlots : HookFindProduct(v)
  \/ \E v \in ReviewSlots : HookFindReviews(v)
  \/ \E v \in ReviewSlots : HookSaveProduct(v)

SpecReviewRace == Init /\ [][NextReviewRace]_vars

\* an order is placed by b1 and reviews are saved with any buyer, product
\* and order reference, the reference of an order that does not exist included
NextPurchase ==
  \/ \E items \in SingleLists : CreateOrderStart("c1", "b1", items)
  \/ CreateSteps("c1")
  \/ \E b \in RaceBuyers, p \in ProductIds, o \in 1..(Len(orders) + 1),
        x \in RaceRatings : ReviewSave("v1", b, p, o, x)
  \/ HookFindProduct("v1")
  \/ HookFindReviews("v1")
  \/ HookSaveProduct("v1")

SpecPurchase == Init /\ [][NextPurchase]_vars

\* an order is placed by b1 while reviews of p1 are submitted and removed,
\* one review operation at a time
NextRatingFrame ==
  \/ \E items \in SingleLists : CreateOrderStart("c1", "b1", items)
  \/ CreateSteps("c1")
  \/ \E b \in RaceBuyers, x \in RaceRatings : ReviewSave("v1", b, "p1", 1, x)
  \/ \E i \in 1..MaxReviews : ReviewDeactivate("v1", i)
  \/ \E i \in 1..MaxReviews : ReviewDelete("v1", i)
  \/ HookSteps("v1")

SpecRatingFrame == Init /\ [][NextRatingFrame]_vars

\* two concurrent createOrder requests with storage failures, and requests of
\* the buyer that cancel the orders placed
NextStock ==
  \/ \E r \in CreateSlots, items \in StockLists : CreateOrderStart(r, "b1", items)
  \/ \E r \in CreateSlots : CreateSteps(r)
  \/ \E r \in CreateSlots : CreateOrderStorageError(r)
  \/ \E oid \in 1..Len(orders) : UpdateStatusLoad("u1", "b1", oid, "cancelled", <<>>)
  \/ UpdateStatusSave("u1")

SpecStock == Init /\ [][NextStock]_vars

\* names and prices the product cards hand to addToCart
CartNames == {"n1", "n2"}

\* quantity changes the buttons of the cart send
CartChanges == {1, -1}

\* a user logs in and out and works on the cart
NextCart ==
  \/ \E u \in {"b1"} : Login(u)
  \/ Logout
  \/ \E id \in ProductIds, n \in CartNames, pr \in 1..MaxPrice :
       AddToCart(id, n, pr)
  \/ \E id \in ProductIds, ch \in CartChanges : UpdateQuantity(id, ch)
  \/ \E id \in ProductIds : RemoveFromCart(id)

SpecCart == Init /\ [][NextCart]_vars

(***************************************************************************)
(* Properties.                                                             *)
(***************************************************************************)
\* the transition table of the order state machine, as pairs <<from, to>>
Edges ==
  {<<"pending", "confirmed">>, <<"pending", "cancelled">>,
   <<"confirmed", "processing">>, <<"confirmed", "cancelled">>,
   <<"processing", "shipped">>, <<"processing", "cancelled">>,
   <<"shipped", "delivered">>}

Rejections == {"ValidationFailed", "ProductUnavailable", "InsufficientStock"}

\* the lines of a request name pairwise distinct products
DistinctProducts(items) ==
  \A i, j \in 1..Len(items) : items[i].productId = items[j].productId => i = j

RECURSIVE Granted(_, _)
\* units of product p granted to the requests of S that were answered 201
Granted(S, p) ==
  IF S = {} THEN 0
  ELSE LET r == CHOOSE x \in S : TRUE
       IN (IF co[r].result = "Created" THEN QtyOf(co[r].orderItems, p) ELSE 0)
          + Granted(S \ {r}, p)

\* C1: concurrent createOrder requests on the same product never succeed
\* together for more units than the product had in stock (no storage failure,
\* each request naming a product at most once; the stock starts at MaxQty and
\* nothing else changes it).
C1_NoOversell ==
  (faults = 0 /\ \A r \in CreateSlots : DistinctProducts(co[r].items))
    => \A p \in ProductIds : Granted(CreateSlots, p) <= MaxQty

\* C2: the stock of every product is never negative.
C2_StockNonNegative == \A p \in ProductIds : products[p].quantity >= 0

\* C3: no failed createOrder leaves its order persisted with the stock of
\* only some of its lines decremented.
C3_NoPartialDecrement ==
  \A r \in CreateSlots :
    ~ /\ co[r].result = "ServerError"
      /\ co[r].orderId # 0
      /\ DistinctProducts(co[r].items)
      /\ co[r].idx - 1 >= 1
      /\ co[r].idx - 1 < Len(co[r].orderItems)

\* the product documents of the catalogue with the lines of an order deducted
Deducted(cat, items) ==
  [p \in DOMAIN cat |-> [cat[p] EXCEPT !.quantity = @ - QtyOf(items, p)]]

\* the total of every persisted order, and of every request in flight, is
\* the sum of price * quantity over its lines
C4_TotalInv ==
  /\ \A o \in 1..Len(orders) :
       orders[o].totalAmount = SumLines(orders[o].items)
  /\ \A r \in CreateSlots : co[r].totalAmount = SumLines(co[r].orderItems)

\* the line pushed by a validation step carries the price and farmer of the
\* product as read in that step and the quantity of the request line
C4_SnapshotStep ==
  \A r \in CreateSlots :
    Len(co'[r].orderItems) = Len(co[r].orderItems) + 1 =>
      LET line == co'[r].orderItems[Len(co'[r].orderItems)]
          item == co[r].items[co[r].idx]
      IN /\ line.product = item.productId
         /\ line.quantity = item.quantity
         /\ line.price = products[item.productId].price
         /\ line.farmer = products[item.productId].farmer

\* the order saved holds the lines and the total gathered by the validation
C4_SavedAsValidated ==
  \A r \in CreateSlots :
    (co[r].pc = "save" /\ Len(orders') = Len(orders) + 1 /\ co'[r].pc # "save") =>
      /\ orders'[Len(orders')].items = co[r].orderItems
      /\ orders'[Len(orders')].totalAmount = co[r].totalAmount

\* C4: every persisted order has totalAmount = sum of price * quantity over
\* its lines, and the price of each line is the product price read when the
\* line was validated, also when a price edit interleaves with createOrder.
C4_TotalIsSumOfSnapshots ==
  /\ []C4_TotalInv
  /\ [][C4_SnapshotStep /\ C4_SavedAsValidated]_vars

\* an order of two lines is persisted and the price of one of its products
\* has been edited since the line was validated
C4_Witness ==
  \E o \in 1..Len(orders) :
    /\ Len(orders[o].items) = 2
    /\ orders[o].totalAmount >= 3
    /\ \E i \in 1..2 :
         orders[o].items[i].price # products[orders[o].items[i].product].price

\* C5: no step changes the lines, the buyer or the total of an order that
\* is already persisted, and no step removes an order.
C5_OrderFrame ==
  [][/\ Len(orders') >= Len(orders)
     /\ \A o \in 1..Len(orders) :
          /\ orders'[o].items = orders[o].items
          /\ orders'[o].buyer = orders[o].buyer
          /\ orders'[o].totalAmount = orders[o].totalAmount]_vars

\* the first order has left pending, has been paid for, and the price of its
\* product has been edited since (the snapshot differs from the catalogue)
C5_Witness ==
  /\ Len(orders) >= 1
  /\ orders[1].status = "cancelled"
  /\ orders[1].paymentStatus = "refunded"
  /\ orders[1].items[1].price # products[orders[1].items[1].product].price

\* a validation step examines the request line at the loop position; it
\* answers ProductUnavailable when the product is missing, inactive,
\* unapproved or not available, otherwise InsufficientStock when the stock
\* is below the requested quantity, otherwise it accepts the line and moves
\* to the next one
C6_ValidateStep ==
  \A r \in CreateSlots :
    (co[r].pc = "validate" /\ co'[r] # co[r]) =>
      LET item == co[r].items[co[r].idx]
          id == item.productId
          missing == id \notin ProductIds
          hidden == \/ ~products[id].isActive
                    \/ ~products[id].isApproved
                    \/ ~products[id].isAvailable
      IN IF missing \/ hidden
           THEN co'[r].pc = "done" /\ co'[r].result = "ProductUnavailable"
           ELSE IF products[id].quantity < item.quantity
             THEN co'[r].pc = "done" /\ co'[r].result = "InsufficientStock"
             ELSE /\ co'[r].result = None
                  /\ co'[r].idx = co[r].idx + 1
                  /\ Len(co'[r].orderItems) = co[r].idx
                  /\ co'[r].pc = IF co[r].idx = Len(co[r].items)
                                   THEN "save" ELSE "validate"

\* a refusal comes at the first line that fails, every line before it having
\* been accepted; the order is saved exactly when every line was accepted
C6_OutcomeInv ==
  \A r \in CreateSlots :
    /\ co[r].pc = "validate" => Len(co[r].orderItems) = co[r].idx - 1
    /\ co[r].result \in {"ProductUnavailable", "InsufficientStock"} =>
         Len(co[r].orderItems) = co[r].idx - 1 /\ co[r].idx <= Len(co[r].items)
    /\ (co[r].pc \in {"save", "decrement"} \/ co[r].result = "Created") =>
         Len(co[r].orderItems) = Len(co[r].items)
    /\ co[r].result = "Created" <=> (co[r].pc = "done" /\ co[r].orderId # 0)

\* C6: createOrder checks the lines in request order, availability before
\* stock, fails at the first line that fails a check with ProductUnavailable
\* or InsufficientStock, and goes on to save exactly when no line fails.
C6_ValidationOrder == []C6_OutcomeInv /\ [][C6_ValidateStep]_vars

\* the second line of a request was refused as unavailable although its
\* stock was also short, after the first line had been accepted
C6_Witness ==
  \E r \in CreateSlots :
    /\ co[r].result = "ProductUnavailable"
    /\ co[r].idx = 2
    /\ alone[r]
    /\ co[r].items[2].productId \in ProductIds
    /\ products[co[r].items[2].productId].quantity < co[r].items[2].quantity

\* a rejected createOrder has persisted no order, and when nothing was
\* interleaved the catalogue and the orders are as they were when it began
C7_RejectedInv ==
  \A r \in CreateSlots :
    /\ co[r].result \in Rejections => co[r].orderId = 0
    /\ (co[r].result \in Rejections /\ alone[r]) =>
         /\ products = snap[r].products
         /\ Len(orders) = snap[r].norders

\* under any interleaving, the steps a request takes up to its rejection
\* (arrival and validation) write neither the catalogue nor the orders
C7_NoWriteBeforeSave ==
  \A r \in CreateSlots :
    (co[r].pc \in {"idle", "validate"} /\ co'[r] # co[r]) =>
      /\ products' = products
      /\ orders' = orders
      /\ co'[r].result \in Rejections \cup {None}

\* C7: a rejected createOrder (ValidationFailed, ProductUnavailable or
\* InsufficientStock, at any line) persists no order and leaves the stock of
\* every product unchanged.
C7_RejectedLeavesNoTrace == []C7_RejectedInv /\ [][C7_NoWriteBeforeSave]_vars

\* a request was refused for lack of stock at its second line
C7_Witness ==
  \E r \in CreateSlots :
    /\ co[r].result = "InsufficientStock"
    /\ alone[r]
    /\ co[r].idx = 2
    /\ Len(co[r].orderItems) = 1

\* C8: a successful createOrder that ran with nothing interleaved has taken
\* from every product exactly the quantity ordered of it, changed nothing
\* else in the catalogue, and added one order, pending and unpaid.
C8_SuccessDecrements ==
  \A r \in CreateSlots :
    (co[r].result = "Created" /\ alone[r]) =>
      /\ products = Deducted(snap[r].products, co[r].orderItems)
      /\ Len(orders) = snap[r].norders + 1
      /\ co[r].orderId = Len(orders)
      /\ orders[co[r].orderId].status = "pending"
      /\ orders[co[r].orderId].paymentStatus = "pending"
      /\ orders[co[r].orderId].totalAmount = SumLines(co[r].orderItems)

\* an order of two units of p1 at price 2 and one unit of p2 went through
C8_Witness ==
  \E r \in CreateSlots :
    /\ co[r].result = "Created"
    /\ alone[r]
    /\ QtyOf(co[r].orderItems, "p1") = 2
    /\ QtyOf(co[r].orderItems, "p2") = 1
    /\ orders[co[r].orderId].totalAmount = 5
    /\ products["p1"].quantity = snap[r].products["p1"].quantity - 2

\* C9: a status request is let through to the save only along an edge of the
\* transition table, and an authorised request on an existing order for any
\* other pair is answered InvalidTransition.
C9_OnlyTableEdges ==
  /\ \A u \in StatusSlots :
       us[u].pc = "loaded" => <<us[u].from, us[u].to>> \in Edges
  /\ (last.op = "status" /\ last.result = "Updated") =>
       <<last.from, last.to>> \in Edges
  /\ (last.op = "status" /\ last.result \notin {"OrderNotFound", "Forbidden"}) =>
       (last.result = "InvalidTransition" <=> <<last.from, last.to>> \notin Edges)
  /\ (last.op = "status" /\ last.result = "InvalidTransition") =>
       /\ last.oid \in 1..Len(orders)
       /\ \/ IsBuyer(orders[last.oid], last.actor)
          \/ IsFarmer(orders[last.oid], last.actor)

\* a request on a delivered order has been answered InvalidTransition
C9_Witness ==
  /\ last.op = "status"
  /\ last.result = "InvalidTransition"
  /\ last.from = "delivered"
  /\ last.to = "cancelled"

\* C10: every change of the persisted status of an order goes along an edge
\* of the transition table.
C10_PersistedChangesAreEdges ==
  [][\A o \in 1..Len(orders) :
       orders'[o].status # orders[o].status =>
         <<orders[o].status, orders'[o].status>> \in Edges]_vars

\* C11: once the persisted status of an order is delivered or cancelled, no
\* step changes it.
C11_TerminalStatusesStay ==
  [][\A o \in 1..Len(orders) :
       orders[o].status \in {"delivered", "cancelled"} =>
         orders'[o].status = orders[o].status]_vars

\* the actor is the buyer of the order or the farmer of one of its lines
Party(order, actor) ==
  \/ order.buyer = actor
  \/ \E i \in 1..Len(order.items) : order.items[i].farmer = actor

\* the actor is the farmer of one of the lines of the order
LineFarmer(order, actor) ==
  \E i \in 1..Len(order.items) : order.items[i].farmer = actor

StatusFailures == {"OrderNotFound", "Forbidden", "InvalidTransition"}

\* a request on an existing active order by an actor who is no party to it
\* is answered Forbidden, and no such request is let through to the save
C12_ThirdPartyInv ==
  /\ ( /\ last.op = "status"
       /\ last.oid \in 1..Len(orders)
       /\ orders[last.oid].isActive
       /\ ~Party(orders[last.oid], last.actor) ) => last.result = "Forbidden"
  /\ \A u \in StatusSlots :
       us[u].pc = "loaded" => Party(orders[us[u].oid], us[u].actor)

\* the step that answers Forbidden writes nothing
C12_ForbiddenStep ==
  (last'.op = "status" /\ last'.result = "Forbidden") =>
     orders' = orders /\ us' = us /\ products' = products

\* C12: an actor who is neither the buyer of an existing active order nor a
\* farmer of one of its lines gets Forbidden on every status update, whatever
\* the requested status, and the order is left unchanged.
C12_ThirdPartyForbidden == []C12_ThirdPartyInv /\ [][C12_ForbiddenStep]_vars

\* a third party asked for a legal transition, with notes, and got Forbidden
C12_Witness ==
  /\ last.op = "status"
  /\ last.result = "Forbidden"
  /\ <<last.from, last.to>> \in Edges
  /\ Given(last.notes)
  /\ ~Party(orders[last.oid], last.actor)

\* the step that answers a status request with a failure writes nothing
C13_FailureStep ==
  (last'.op = "status" /\ last'.result \in StatusFailures) =>
     orders' = orders /\ us' = us

\* the status and the notes of an order change only in the step that
\* answers a status request with success
C13_WriteOnlyOnSuccess ==
  \A o \in 1..Len(orders) :
    ( \/ orders'[o].status # orders[o].status
      \/ orders'[o].farmerNotes # orders[o].farmerNotes
      \/ orders'[o].deliveryNotes # orders[o].deliveryNotes ) =>
       (last'.op = "status" /\ last'.result = "Updated" /\ last'.oid = o)

\* C13: a status request answered OrderNotFound, Forbidden or
\* InvalidTransition leaves the status, farmerNotes and deliveryNotes of the
\* order as they were, also when the request carried notes.
C13_FailedUpdateLeavesOrder ==
  [][C13_FailureStep /\ C13_WriteOnlyOnSuccess]_vars

\* a party to the order asked for an illegal transition with notes and the
\* order carries no note
C13_Witness ==
  /\ last.op = "status"
  /\ last.result = "InvalidTransition"
  /\ Given(last.notes)
  /\ orders[last.oid].status = last.from
  /\ orders[last.oid].farmerNotes = None
  /\ orders[last.oid].deliveryNotes = None

\* the step that answers a status request with success and the order it wrote
Succeeds(o) == last'.op = "status" /\ last'.result = "Updated" /\ last'.oid = o

\* C14: on a successful status update with notes, the notes go to farmerNotes
\* when the actor is a farmer of a line of the order (also when that actor is
\* the buyer of the order as well) and to deliveryNotes when the actor is the
\* buyer and no farmer of a line; the other note field is unchanged, and
\* without notes neither field changes.
C14_NotesByFarmerFirst ==
  [][\A o \in 1..Len(orders) : Succeeds(o) =>
       IF ~Given(last'.notes)
         THEN /\ orders'[o].farmerNotes = orders[o].farmerNotes
              /\ orders'[o].deliveryNotes = orders[o].deliveryNotes
         ELSE IF LineFarmer(orders[o], last'.actor)
           THEN /\ orders'[o].farmerNotes = last'.notes[1]
                /\ orders'[o].deliveryNotes = orders[o].deliveryNotes
           ELSE /\ orders'[o].deliveryNotes = last'.notes[1]
                /\ orders'[o].farmerNotes = orders[o].farmerNotes]_vars

\* the buyer of an order, who is also the farmer of its line, updated the
\* status with notes: the notes are in farmerNotes and not in deliveryNotes
C14_Witness ==
  /\ last.op = "status"
  /\ last.result = "Updated"
  /\ Given(last.notes)
  /\ orders[last.oid].buyer = last.actor
  /\ LineFarmer(orders[last.oid], last.actor)
  /\ orders[last.oid].farmerNotes = last.notes[1]
  /\ orders[last.oid].deliveryNotes = None

\* C14 as stated: notes sent by the buyer of the order are attached to
\* deliveryNotes, and notes sent by a farmer of a line to farmerNotes.
C14_NotesBySide ==
  [][\A o \in 1..Len(orders) : (Succeeds(o) /\ Given(last'.notes)) =>
       /\ orders[o].buyer = last'.actor =>
            orders'[o].deliveryNotes = last'.notes[1]
       /\ LineFarmer(orders[o], last'.actor) =>
            orders'[o].farmerNotes = last'.notes[1]]_vars

\* C15: a step that moves an order to cancelled leaves every product as it
\* was; no step of a status request writes the catalogue.
C15_CancelKeepsStock ==
  [][/\ (\E o \in 1..Len(orders) :
           orders'[o].status = "cancelled" /\ orders[o].status # "cancelled")
          => products' = products
     /\ last'.op = "status" => products' = products
     /\ (\E u \in StatusSlots : us'[u] # us[u]) => products' = products]_vars

\* an order whose stock was taken has been cancelled, and the stock of its
\* products is still reduced by the ordered quantities
C15_Witness ==
  /\ Len(orders) >= 1
  /\ orders[1].status = "cancelled"
  /\ co["c1"].result = "Created"
  /\ \A p \in ProductIds :
       products[p].quantity = MaxQty - QtyOf(orders[1].items, p)
  /\ \E p \in ProductIds : QtyOf(orders[1].items, p) > 0

\* a payment request of the buyer on an existing active order is never
\* answered with a failure
C16_BuyerNeverRefused ==
  ( /\ last.op = "payment"
    /\ last.oid \in 1..Len(orders)
    /\ orders[last.oid].isActive
    /\ orders[last.oid].buyer = last.actor ) => last.result = "Updated"

\* a payment request of the buyer is taken up whatever the stored payment
\* status and the order status are; its save stores the requested value and
\* answers success; no payment step changes the status of an order
C16_PaymentStep ==
  /\ \A y \in PaySlots :
       (pay[y].pc = "loaded" /\ pay'[y] # pay[y]) =>
          /\ orders'[pay[y].oid].paymentStatus = pay[y].paymentStatus
          /\ last'.op = "payment" /\ last'.result = "Updated"
          /\ last'.from = orders[pay[y].oid].paymentStatus
          /\ last'.to = pay[y].paymentStatus
  /\ (last'.op = "payment" \/ \E y \in PaySlots : pay'[y] # pay[y]) =>
       \A o \in 1..Len(orders) : orders'[o].status = orders[o].status

\* C16: setPaymentStatus by the buyer of the order succeeds for every pair
\* of stored and requested payment status and in every order status, and it
\* never changes the status of the order.
C16_PaymentUnconstrained == []C16_BuyerNeverRefused /\ [][C16_PaymentStep]_vars

\* the buyer moved a delivered order out of refunded
C16_Witness ==
  /\ last.op = "payment"
  /\ last.result = "Updated"
  /\ last.from = "refunded"
  /\ last.to = "paid"
  /\ orders[last.oid].status = "delivered"
  /\ orders[last.oid].paymentStatus = "paid"

\* a payment request on an existing order by an actor other than its buyer
\* is answered OrderNotFound, and no such request is let through to the save
C17_OthersRefused ==
  /\ ( /\ last.op = "payment"
       /\ last.oid \in 1..Len(orders)
       /\ orders[last.oid].buyer # last.actor ) => last.result = "OrderNotFound"
  /\ \A y \in PaySlots :
       pay[y].pc = "loaded" => orders[pay[y].oid].buyer = pay[y].actor

\* the refusal writes nothing, and the payment status and reference of an
\* order change only in the step that answers its buyer with success
C17_PaymentWriteStep ==
  /\ (last'.op = "payment" /\ last'.result = "OrderNotFound") =>
        orders' = orders /\ pay' = pay
  /\ \A o \in 1..Len(orders) :
       ( \/ orders'[o].paymentStatus # orders[o].paymentStatus
         \/ orders'[o].paymentReference # orders[o].paymentReference ) =>
          /\ last'.op = "payment" /\ last'.result = "Updated" /\ last'.oid = o
          /\ last'.actor = orders[o].buyer

\* C17: a payment status request by anyone but the buyer of the order, a
\* farmer of one of its lines included, fails and leaves paymentStatus and
\* paymentReference unchanged.
C17_PaymentBuyerOnly == []C17_OthersRefused /\ [][C17_PaymentWriteStep]_vars

\* the farmer of a line of the order asked for another payment status, with
\* a reference, and was refused; the order carries no reference
C17_Witness ==
  /\ last.op = "payment"
  /\ last.result = "OrderNotFound"
  /\ last.oid \in 1..Len(orders)
  /\ LineFarmer(orders[last.oid], last.actor)
  /\ last.to # orders[last.oid].paymentStatus
  /\ orders[last.oid].paymentReference = None

\* every persisted order has a number, and no two persisted orders share one
C18_NumbersUnique ==
  /\ \A o \in 1..Len(orders) : orders[o].orderNumber \in OrderNumbers
  /\ \A o1, o2 \in 1..Len(orders) :
       orders[o1].orderNumber = orders[o2].orderNumber => o1 = o2

\* no step changes the number of a persisted order
C18_NumberKept ==
  \A o \in 1..Len(orders) : orders'[o].orderNumber = orders[o].orderNumber

\* C18: every persisted order has an orderNumber unique among the persisted
\* orders, given at creation and never changed by a later save of the order.
C18_OrderNumberUniqueImmutable == []C18_NumbersUnique /\ [][C18_NumberKept]_vars

\* two orders are persisted and the first has since been saved by a status
\* update and by a payment update
C18_Witness ==
  /\ Len(orders) = 2
  /\ orders[1].orderNumber # orders[2].orderNumber
  /\ orders[1].status = "confirmed"
  /\ orders[1].paymentStatus = "paid"

\* C19: a createOrder whose generated order number is already held by a
\* persisted order does not fail: short of a storage failure, no request is
\* answered with a server error.
C19_CollisionRetried ==
  \A r \in CreateSlots : faults = 0 => co[r].result # "ServerError"

\* number of active reviews of product p
ActiveCount(p) ==
  Cardinality({i \in 1..Len(reviews) : reviews[i].product = p /\ reviews[i].isActive})

RECURSIVE SumRatings(_, _)
\* sum of the ratings of the active reviews of p among the first k reviews
SumRatings(k, p) ==
  IF k = 0 THEN 0
  ELSE (IF reviews[k].product = p /\ reviews[k].isActive
          THEN reviews[k].rating ELSE 0) + SumRatings(k - 1, p)

\* a (in tenths) is the mean total / n rounded to one decimal, halves up
NearestTenth(a, total, n) ==
  /\ 2 * (a * n - 10 * total) <= n
  /\ 2 * (10 * total - a * n) < n

\* C20: after a review is committed and its hook has run with nothing
\* interleaved, the rating of the product has count = number of active
\* reviews of the product and average = mean of their ratings rounded to one
\* decimal.
C20_AggregateAfterCommit ==
  \A v \in ReviewSlots :
    ( /\ rv[v].pc = "done"
      /\ rv[v].result = "Committed"
      /\ rv[v].alone
      /\ rv[v].product \in ProductIds ) =>
       LET p == rv[v].product
       IN /\ products[p].rating.count = ActiveCount(p)
          /\ ActiveCount(p) >= 1
          /\ NearestTenth(products[p].rating.average,
                          SumRatings(Len(reviews), p), ActiveCount(p))

\* three reviews with ratings 5, 5 and 4 are committed: the mean 4.666... is
\* stored as 4.7
C20_Witness ==
  \E v \in ReviewSlots :
    /\ rv[v].pc = "done"
    /\ rv[v].result = "Committed"
    /\ rv[v].alone
    /\ rv[v].product = "p1"
    /\ ActiveCount("p1") = 3
    /\ SumRatings(Len(reviews), "p1") = 14
    /\ products["p1"].rating = [average |-> 47, count |-> 3]

\* the rating of product p is the recomputation over its active reviews:
\* their number and their mean rounded to one decimal, {0, 0} when none
Recomputed(p) ==
  /\ products[p].rating.count = ActiveCount(p)
  /\ IF ActiveCount(p) = 0
       THEN products[p].rating.average = 0
       ELSE NearestTenth(products[p].rating.average,
                         SumRatings(Len(reviews), p), ActiveCount(p))

\* C21: after a review was removed, by deactivation or by physical delete,
\* and the hook has run with nothing interleaved, the rating of the product
\* is the recomputation over the remaining active reviews, {0, 0} when none
\* remains.
C21_AggregateAfterRemoval ==
  \A v \in ReviewSlots :
    ( /\ rv[v].pc = "done"
      /\ rv[v].op \in {"deactivate", "delete"}
      /\ rv[v].alone
      /\ rv[v].product \in ProductIds ) => Recomputed(rv[v].product)

\* C22: when a review is submitted and then removed, each with its hook run
\* to the end and nothing else in between, the rating of the product is
\* again what it was before the submission (the rating then being the
\* recomputation over the reviews of that moment).
C22_SubmitRemoveRoundTrip ==
  \A v \in ReviewSlots :
    ( /\ rv[v].pc = "done"
      /\ rv[v].op \in {"deactivate", "delete"}
      /\ rv[v].trip
      /\ rv[v].fresh
      /\ rv[v].alone
      /\ rv[v].product \in ProductIds ) =>
       products[rv[v].product].rating = rv[v].before

\* C23: once every submission and every hook has finished, the rating of
\* the product is the recomputation over its active reviews, whatever the
\* interleaving of the concurrent requests was.
C23_AggregateAfterQuiescence ==
  (\A v \in ReviewSlots : rv[v].pc \in {"idle", "done"}) => Recomputed("p1")

\* no two stored reviews, active or not, share their product and buyer
OnePerPair ==
  \A i, j \in 1..Len(reviews) :
    (reviews[i].product = reviews[j].product
       /\ reviews[i].buyer = reviews[j].buyer) => i = j

\* a submission answered DuplicateReview changes neither the reviews nor the
\* products, and no hook is started for it
DuplicateIsInert ==
  \A v \in ReviewSlots :
    ( /\ rv'[v] # rv[v]
      /\ rv'[v].alone
      /\ rv'[v].result = "DuplicateReview" ) =>
       /\ rv'[v].pc = "done"
       /\ reviews' = reviews
       /\ products' = products

\* C24: at most one review is stored per product and buyer, an inactive one
\* included; a second submission by the buyer for the product is answered
\* DuplicateReview and leaves the reviews and the rating as they were.
C24_OneReviewPerBuyer == []OnePerPair /\ [][DuplicateIsInert]_vars

\* a submission was refused although the buyer's review of the product is
\* inactive
C24_Witness ==
  \E v \in ReviewSlots :
    /\ rv[v].result = "DuplicateReview"
    /\ \E i \in 1..Len(reviews) :
         /\ reviews[i].product = rv[v].product
         /\ reviews[i].buyer = rv[v].buyer
         /\ ~reviews[i].isActive

\* C25: every stored review refers to an order that exists, was placed by
\* the buyer of the review and has a line for the reviewed product.
C25_ReviewOfPurchase ==
  \A i \in 1..Len(reviews) :
    /\ reviews[i].order \in 1..Len(orders)
    /\ orders[reviews[i].order].buyer = reviews[i].buyer
    /\ \E k \in 1..Len(orders[reviews[i].order].items) :
         orders[reviews[i].order].items[k].product = reviews[i].product

\* C26: the rating of every product has an average between 0 and 5 (in
\* tenths: 0..50) and a count that is not negative, whatever reviews with
\* ratings 1..5 were submitted and removed.
C26_RatingInRange ==
  \A p \in DOMAIN products :
    /\ 0 <= products[p].rating.average
    /\ products[p].rating.average <= 10 * MaxRating
    /\ products[p].rating.count >= 0

\* after a removal the product is rated 5.0 by the reviews that remain
C26_Witness ==
  \E v \in ReviewSlots :
    /\ rv[v].pc = "done"
    /\ rv[v].op \in {"deactivate", "delete"}
    /\ rv[v].result = "Removed"
    /\ products["p1"].rating.average = 10 * MaxRating
    /\ products["p1"].rating.count = ActiveCount("p1")
    /\ ActiveCount("p1") >= 1

\* C27: a createOrder request is not answered with a server failure at the
\* first storage failure it meets: the call is retried first, so a request
\* that was answered so has met more than one.
C27_ConflictRetried ==
  \A r \in CreateSlots :
    (co[r].pc = "done" /\ co[r].result = "ServerError") => faults > 1

\* C28: a createOrder request that ran with nothing interleaved and was
\* answered 201 asked, over all its lines together, for no more units of any
\* product than the product had in stock when the request arrived.
C28_CombinedQuantity ==
  \A r \in CreateSlots :
    (co[r].pc = "done" /\ co[r].result = "Created" /\ alone[r]) =>
      \A p \in ProductIds :
        QtyOf(co[r].orderItems, p) <= snap[r].products[p].quantity

RECURSIVE OrderedQty(_, _)
\* units of product p over the lines of the first k persisted orders
OrderedQty(k, p) ==
  IF k = 0 THEN 0 ELSE QtyOf(orders[k].items, p) + OrderedQty(k - 1, p)

\* no createOrder request is between its arrival and its answer
NoneInFlight == \A r \in CreateSlots : co[r].pc \in {"idle", "done"}

\* C29: when no createOrder request is in flight, no store call has failed
\* and no farmer has edited a quantity, every product is short of its initial
\* quantity by exactly the units of it on the lines of all persisted orders,
\* the cancelled orders included.
C29_StockConservation ==
  (NoneInFlight /\ faults = 0 /\ edits = 0) =>
    \A p \in ProductIds :
      MaxQty - products[p].quantity = OrderedQty(Len(orders), p)

\* two orders are persisted, one of them cancelled, and p1 is on their lines
C29_Witness ==
  /\ NoneInFlight
  /\ faults = 0
  /\ Len(orders) = 2
  /\ orders[1].status = "cancelled"
  /\ orders[2].status = "pending"
  /\ QtyOf(orders[1].items, "p1") >= 1
  /\ OrderedQty(2, "p1") >= 2

\* position of a status on the path of an order
Rank(status) ==
  CASE status = "pending" -> 0
    [] status = "confirmed" -> 1
    [] status = "processing" -> 2
    [] status = "shipped" -> 3
    [] status = "delivered" -> 4
    [] status = "cancelled" -> 5

\* C30: while the updateStatus requests on an order run one at a time, the
\* statuses it has held are pairwise different, each follows its predecessor
\* as the next on the path pending, confirmed, processing, shipped, delivered
\* or is cancelled, and there are at most 4 of them after the first.
C30_StatusAdvances ==
  \A o \in 1..Len(hist) :
    /\ \A i, j \in 1..Len(hist[o]) : hist[o][i] = hist[o][j] => i = j
    /\ \A i \in 1..(Len(hist[o]) - 1) :
         \/ hist[o][i + 1] = "cancelled"
         \/ Rank(hist[o][i + 1]) = Rank(hist[o][i]) + 1
    /\ Len(hist[o]) - 1 <= 4

\* an order has been updated four times and is delivered
C30_Witness ==
  \E o \in 1..Len(hist) :
    /\ Len(hist[o]) = 5
    /\ orders[o].status = "delivered"
    /\ hist[o][1] = "pending"

\* the status of an order is the one its last status update gave it
StatusIsLastGiven ==
  \A o \in 1..Len(orders) :
    hist[o] # <<>> => orders[o].status = hist[o][Len(hist[o])]

\* the save of a status update stores the status asked for and leaves the
\* payment status as it is in the store
StatusSaveKeepsPayment ==
  \A u \in StatusSlots :
    (us[u].pc = "loaded" /\ us'[u].pc = "idle") =>
      /\ orders'[us[u].oid].status = us[u].to
      /\ orders'[us[u].oid].paymentStatus = orders[us[u].oid].paymentStatus

\* the save of a payment update stores the payment status asked for and
\* leaves the status as it is in the store
PaymentSaveKeepsStatus ==
  \A y \in PaySlots :
    (pay[y].pc = "loaded" /\ pay'[y].pc = "idle") =>
      /\ orders'[pay[y].oid].paymentStatus = pay[y].paymentStatus
      /\ orders'[pay[y].oid].status = orders[pay[y].oid].status

\* C31: a status update and a payment update of the same order that overlap
\* both take effect: each save stores its own field and leaves the other
\* field as stored, never as it was when the request read the order.
C31_BothTakeEffect ==
  /\ []StatusIsLastGiven
  /\ [][StatusSaveKeepsPayment /\ PaymentSaveKeepsStatus]_vars

\* a status update of an order has been saved while a payment update that
\* read the order before is still to save
C31_Witness ==
  /\ last.op = "status"
  /\ last.result = "Updated"
  /\ last.to = "cancelled"
  /\ orders[last.oid].status = "cancelled"
  /\ \E y \in PaySlots :
       /\ pay[y].pc = "loaded"
       /\ pay[y].oid = last.oid
       /\ pay[y].paymentStatus = "paid"

\* C32: when an order is persisted, every product on its lines is in the
\* catalogue at that moment and is active, approved and available, also when
\* the catalogue was edited since the request validated the line.
C32_PersistedLinesAvailable ==
  [][Len(orders') = Len(orders) + 1 =>
       \A k \in 1..Len(orders'[Len(orders')].items) :
         LET id == orders'[Len(orders')].items[k].product
         IN /\ id \in DOMAIN products
            /\ products[id].isActive
            /\ products[id].isApproved
            /\ products[id].isAvailable]_vars

\* a product enters the catalogue unapproved, and the only step that changes
\* the approval of a product sets it and changes nothing else in the catalogue
ApprovalOnlyGranted ==
  \A p \in DOMAIN products' :
    IF p \notin DOMAIN products
      THEN ~products'[p].isApproved
      ELSE products'[p].isApproved # products[p].isApproved =>
             products' = [products EXCEPT ![p].isApproved = TRUE]

\* every product on a line of a persisted order has been approved
OrderedIsApproved ==
  \A o \in 1..Len(orders) : \A k \in 1..Len(orders[o].items) :
    /\ orders[o].items[k].product \in DOMAIN products
    /\ products[orders[o].items[k].product].isApproved

\* C33: a product created by a farmer starts unapproved, its approval is set
\* by the admin's approve action only (no edit of the farmer changes it), and
\* no order with a line for the product is placed before that.
C33_ApprovalGating == []OrderedIsApproved /\ [][ApprovalOnlyGranted]_vars

\* p2 was listed by f2, approved, and ordered
C33_Witness ==
  /\ co["c1"].result = "Created"
  /\ QtyOf(orders[1].items, "p2") >= 1
  /\ products["p2"].isApproved
  /\ products["p2"].farmer = "f2"

\* line i of request r names a product that was in the catalogue and
\* inactive when the request arrived
Retired(r, i) ==
  /\ co[r].items[i].productId \in DOMAIN snap[r].products
  /\ ~snap[r].products[co[r].items[i].productId].isActive

\* no step makes an inactive product active
InactiveStays ==
  \A p \in DOMAIN products : ~products[p].isActive => ~products'[p].isActive

\* a well-formed request that arrived with a line for an inactive product is
\* answered ProductUnavailable
RetiredIsUnavailable ==
  \A r \in CreateSlots :
    ( /\ co[r].pc = "done"
      /\ BodyValid(co[r].items)
      /\ \E i \in 1..Len(co[r].items) : Retired(r, i) ) =>
       co[r].result = "ProductUnavailable"

\* C34, as stated: a product that is inactive stays so, and a well-formed
\* createOrder request that arrives afterwards with a line for it is answered
\* ProductUnavailable.
C34_RetiredIsUnavailable == []RetiredIsUnavailable /\ [][InactiveStays]_vars

\* a request that arrived with a line for an inactive product never reaches
\* its save: it is answered ValidationFailed when the body is malformed,
\* InsufficientStock when a line before every such line fails its stock
\* check, and ProductUnavailable otherwise
RetiredIsRefused ==
  \A r \in CreateSlots :
    (\E i \in 1..Len(co[r].items) : Retired(r, i)) =>
      /\ co[r].pc \in {"validate", "done"}
      /\ co[r].orderId = 0
      /\ co[r].pc = "done" =>
           \/ co[r].result = "ProductUnavailable"
           \/ co[r].result = "ValidationFailed" /\ ~(Len(co[r].items) >= 1
                /\ \A i \in 1..Len(co[r].items) : co[r].items[i].quantity >= 1)
           \/ /\ co[r].result = "InsufficientStock"
              /\ \A i \in 1..Len(co[r].items) : Retired(r, i) => co[r].idx < i

\* C34, amended: a product that is inactive stays so, and every createOrder
\* request that arrives afterwards with a line for it fails without
\* persisting an order; the answer is ProductUnavailable unless the body is
\* malformed or an earlier line fails its stock check.
C34_RetiredIsRefused == []RetiredIsRefused /\ [][InactiveStays]_vars

\* a request that arrived after the inactive product p2 was approved was
\* answered ProductUnavailable at its line for p2
C34_Witness ==
  \E r \in CreateSlots :
    /\ co[r].pc = "done"
    /\ co[r].result = "ProductUnavailable"
    /\ co[r].items[co[r].idx].productId = "p2"
    /\ snap[r].products["p2"].isApproved
    /\ ~snap[r].products["p2"].isActive
    /\ ~products["p2"].isActive

\* a step of a hook that saves the product changes the rating of the
\* product of the hook and nothing else in the catalogue
HookSaveFrame ==
  \A v \in ReviewSlots :
    (rv[v].pc \in {"saveProduct", "delSaveProduct"} /\ rv'[v].pc = "done") =>
      \A p \in DOMAIN products :
        /\ products'[p].quantity = products[p].quantity
        /\ products'[p].price = products[p].price
        /\ products'[p].farmer = products[p].farmer
        /\ products'[p].isActive = products[p].isActive
        /\ products'[p].isApproved = products[p].isApproved
        /\ products'[p].isAvailable = products[p].isAvailable
        /\ p # rv[v].product => products'[p].rating = products[p].rating

\* the units deducted from the stock of a product are those of the lines
\* whose decrement has run
DecrementsKept ==
  \A p \in ProductIds :
    MaxQty - products[p].quantity =
      IF co["c1"].pc = "decrement"
        THEN QtyOf(SubSeq(co["c1"].orderItems, 1, co["c1"].idx - 1), p)
      ELSE IF co["c1"].result = "Created"
        THEN QtyOf(co["c1"].orderItems, p)
      ELSE 0

\* C35: the recomputation of a rating changes the rating of its product
\* only; quantity, price and flags stay as stored, also when a stock
\* decrement of createOrder ran between the hook's read and its save.
C35_RatingFrame == []DecrementsKept /\ [][HookSaveFrame]_vars

\* the hook has read p1 and is about to save it, and the decrement of an
\* order line for p1 ran after the hook's read
C35_Witness ==
  \E v \in ReviewSlots :
    /\ rv[v].pc \in {"saveProduct", "delSaveProduct"}
    /\ rv[v].product = "p1"
    /\ rv[v].loaded.quantity = MaxQty
    /\ products["p1"].quantity < MaxQty
    /\ co["c1"].result = "Created"


\* the cart holds at most one entry per productId
OneEntryPerProduct ==
  \A i, j \in 1..Len(cart) : cart[i].productId = cart[j].productId => i = j

\* every entry of the cart has a quantity of at least 1
QuantitiesPositive == \A i \in 1..Len(cart) : cart[i].quantity >= 1

\* the cart a page load reads back from localStorage is the cart in memory
StoredIsCart == LoadCart(localStorage) = cart

\* a step of addToCart taken with no logged-in user
AddToCartLoggedOut ==
  /\ currentUser = None
  /\ last'.op = "addToCart"
  /\ last' # last \/ cart' # cart \/ localStorage' # localStorage

\* C36: starting from an empty cart, after any sequence of addToCart,
\* updateQuantity(+1/-1) and removeFromCart, the cart holds at most one
\* entry per productId, every entry has quantity >= 1, the cart stored in
\* localStorage equals the in-memory cart, and addToCart with no logged-in
\* user leaves the cart unchanged.
C36_CartInvariant ==
  /\ [](OneEntryPerProduct /\ QuantitiesPositive /\ StoredIsCart)
  /\ [][AddToCartLoggedOut =>
          /\ cart' = cart
          /\ localStorage' = localStorage
          /\ last'.result = "LoginRequired"]_vars

\* C36 witness: after additions, a quantity change and a removal, a cart of
\* one entry of quantity 2 is held and stored, and addToCart was just refused
\* to a visitor who is not logged in
C36_Witness ==
  /\ currentUser = None
  /\ last.op = "addToCart"
  /\ last.result = "LoginRequired"
  /\ Len(cart) = 1
  /\ cart[1].productId = "p2"
  /\ cart[1].quantity = 2
  /\ localStorage = <<Stringify(cart)>>

====
